---- MODULE Spec2Model ----
(***************************************************************************)
(* A model of the command language of pepper (command_next.rs: compiler,   *)
(* virtual machine, CommandManager::eval) and of its mode dispatcher       *)
(* (mode.rs, mode/command.rs).                                             *)
(*                                                                         *)
(* Text is a sequence of one-character strings; byte offsets are 0-based   *)
(* as in the source, sequences are 1-based.  A source text is given by its *)
(* token sequence (what CommandTokenizer::next returns for it); the        *)
(* position of a token is its index in that sequence.                      *)
(***************************************************************************)
EXTENDS Integers, Sequences, FiniteSets, TLC

VARIABLES
    \* VirtualMachine
    ops, op_locations, texts, value_stack, frames, prepared_frames,
    \* CommandCollection
    macro_commands,
    \* CommandManager::eval / execute: position and locals
    phase, op_index, start_stack_index, initial_texts_len, definitions_len,
    source, result, output, evals,
    \* Mode, ReadLine, StatusBar and the command-mode handler
    kind, hooks, read_line, picker_state, history, status_bar, mode_pc,
    eval_outcome, mode_op, steps,
    \* command::State::completion_index
    completion_index,
    \* the key the last poll consumed, VecDeque::capacity of the history, and
    \* the entry of the last call of add_to_history from outside the modes
    key, history_capacity, added_entry,
    \* CommandTokenizer, and the results of its calls of next so far
    tokenizer, tokens,
    \* the characters given to Key::parse and what it returned
    chars, parsed,
    \* CursorCollection
    cursors, main_cursor_index

vmVars == <<ops, op_locations, texts, value_stack, frames, prepared_frames,
            macro_commands, phase, op_index, start_stack_index,
            initial_texts_len, definitions_len, source, result, output, evals>>
modeVars == <<kind, hooks, read_line, picker_state, history, status_bar,
              mode_pc, eval_outcome, mode_op, steps, key, history_capacity,
              added_entry, completion_index>>
tkVars == <<tokenizer, tokens>>
libVars == <<chars, parsed, cursors, main_cursor_index>>
vars == <<vmVars, modeVars, tkVars, libVars>>

----------------------------------------------------------------------------
\* Bounds of the model

\* evals of one CommandManager
MaxEvals == 2
\* parameters of a generated macro
MaxParams == 2
\* positional arguments of a generated builtin call
MaxArgs == 2
\* handler calls of one mode run
MaxSteps == 4

\* Program constants
HISTORY_CAPACITY == 10
U8_MAX == 255
U16_RANGE == 65536

----------------------------------------------------------------------------
\* Vec / String helpers

\* Vec::truncate, String::truncate
Truncate(s, n) == IF n < Len(s) THEN SubSeq(s, 1, n) ELSE s
\* &s[a..b] is defined (does not panic)
SliceOk(s, a, b) == a <= b /\ b <= Len(s)
\* &s[a..b]
Slice(s, a, b) == SubSeq(s, a + 1, b)
Last(s) == s[Len(s)]
Front(s) == SubSeq(s, 1, Len(s) - 1)

RECURSIVE IndexOf(_, _, _)
\* str::find(ch) from 1-based index i: the first index of ch, 0 when absent
IndexOf(s, ch, i) ==
    IF i > Len(s) THEN 0
    ELSE IF s[i] = ch THEN i ELSE IndexOf(s, ch, i + 1)

RECURSIVE Concat(_)
Concat(ss) == IF ss = <<>> THEN <<>> ELSE Head(ss) \o Concat(Tail(ss))

\* FNV-1a of the bytes.  Names are only ever compared through their hashes;
\* the 64-bit hashes of the names of this model are pairwise distinct, so
\* the hash of a name is represented by the name.
hash_bytes(bytes) == bytes

----------------------------------------------------------------------------
\* Op

OpReturn == [op |-> "Return"]
OpPop == [op |-> "Pop"]
OpPushStringLiteral(start, len) ==
    [op |-> "PushStringLiteral", start |-> start, len |-> len]
OpDuplicateAt(i) == [op |-> "DuplicateAt", index |-> i]
OpPrepareStackFrame == [op |-> "PrepareStackFrame"]
OpCallBuiltinCommand(i, bang) ==
    [op |-> "CallBuiltinCommand", index |-> i, bang |-> bang]
OpCallMacroCommand(i) == [op |-> "CallMacroCommand", index |-> i]

StackValue(start, end) == [start |-> start, end |-> end]
StackFrame(oi, tl, sl) == [op_index |-> oi, texts_len |-> tl, stack_len |-> sl]

----------------------------------------------------------------------------
\* Names and tokens

n_macro == <<"m", "a", "c", "r", "o">>
n_return == <<"r", "e", "t", "u", "r", "n">>
n_cmd == <<"c", "m", "d">>
n_append == <<"a", "p", "p", "e", "n", "d">>

Lit(t) == [kind |-> "Literal", text |-> t]
Quo(t) == [kind |-> "QuotedLiteral", text |-> <<"'">> \o t \o <<"'">>]
Bnd(t) == [kind |-> "Binding", text |-> <<"$">> \o t]
TokOpenCurly == [kind |-> "OpenCurlyBrackets", text |-> <<"{">>]
TokCloseCurly == [kind |-> "CloseCurlyBrackets", text |-> <<"}">>]
TokOpenParen == [kind |-> "OpenParenthesis", text |-> <<"(">>]
TokCloseParen == [kind |-> "CloseParenthesis", text |-> <<")">>]
TokEquals == [kind |-> "Equals", text |-> <<"=">>]
TokEndOfLine == [kind |-> "EndOfLine", text |-> <<"\n">>]
TokEndOfSource == [kind |-> "EndOfSource", text |-> <<>>]

\* The builtin table of the tests: cmd writes nothing, append writes the
\* concatenation of its arguments.
BUILTIN_COMMANDS ==
    << [name_hash |-> hash_bytes(n_cmd), alias_hash |-> hash_bytes(<<>>),
        accepts_bang |-> TRUE, flags |-> <<"-switch", "-option">>,
        func |-> "none"],
       [name_hash |-> hash_bytes(n_append), alias_hash |-> hash_bytes(<<>>),
        accepts_bang |-> FALSE, flags |-> <<>>,
        func |-> "append"] >>

----------------------------------------------------------------------------
\* Compiler.  A compiler state c holds the tokens, the index pos of
\* previous_token, the arrays of the VirtualMachine it appends to, the macro
\* table, the bindings, and err ("" while no error was returned).

NewCompiler(toks, vm_ops, vm_locs, vm_texts, macros) ==
    [toks |-> toks, pos |-> 1, ops |-> vm_ops, locs |-> vm_locs,
     texts |-> vm_texts, macros |-> macros, bindings |-> <<>>,
     returned |-> FALSE, err |-> ""]

Fail(c, k) == IF c.err # "" THEN c ELSE [c EXCEPT !.err = k]

previous_token(c) ==
    IF c.pos <= Len(c.toks) THEN c.toks[c.pos] ELSE TokEndOfSource

next_token(c) ==
    IF c.err # "" THEN c
    ELSE [c EXCEPT !.pos = IF @ <= Len(c.toks) THEN @ + 1 ELSE @]

consume_token(c, k) ==
    IF c.err # "" THEN c
    ELSE IF previous_token(c).kind = k THEN next_token(c)
    ELSE Fail(c, "ExpectedToken")

declare_binding_from_previous_token(c) ==
    IF c.err # "" THEN c
    ELSE IF Len(c.bindings) < U8_MAX
    THEN [c EXCEPT !.bindings = Append(@, hash_bytes(previous_token(c).text))]
    ELSE Fail(c, "TooManyBindings")

RECURSIVE RPosition(_, _, _)
\* Iterator::rposition over s[1..i]: the last index holding h, 0 when none
RPosition(s, h, i) ==
    IF i = 0 THEN 0 ELSE IF s[i] = h THEN i ELSE RPosition(s, h, i - 1)

\* The 0-based stack index of the binding named by previous_token, -1: None
find_binding_stack_index_from_previous_token(c) ==
    RPosition(c.bindings, hash_bytes(previous_token(c).text),
              Len(c.bindings)) - 1

RECURSIVE MacroPosition(_, _, _), BuiltinPosition(_, _)
\* macro_commands.iter().position(..): 1-based, 0 when none
MacroPosition(macros, name_hash, i) ==
    IF i > Len(macros) THEN 0
    ELSE IF macros[i].name_hash = name_hash THEN i
    ELSE MacroPosition(macros, name_hash, i + 1)

\* builtin_commands.iter().position(..): 1-based, 0 when none
BuiltinPosition(name_hash, i) ==
    IF i > Len(BUILTIN_COMMANDS) THEN 0
    ELSE IF BUILTIN_COMMANDS[i].name_hash = name_hash
            \/ BUILTIN_COMMANDS[i].alias_hash = name_hash THEN i
    ELSE BuiltinPosition(name_hash, i + 1)

\* find_command that looks at the macros only
find_macro_command(macros, name_hash) ==
    LET mi == MacroPosition(macros, name_hash, 1)
    IN  IF mi # 0 THEN [kind |-> "Macro", index |-> mi - 1]
        ELSE [kind |-> "None", index |-> 0]

\* The command of that name hash: macros, then builtins (0-based index).
\* No request command is ever registered.
find_command(macros, name_hash) ==
    LET mi == MacroPosition(macros, name_hash, 1)
        bi == BuiltinPosition(name_hash, 1)
    IN  IF mi # 0 THEN [kind |-> "Macro", index |-> mi - 1]
        ELSE IF bi # 0 THEN [kind |-> "Builtin", index |-> bi - 1]
        ELSE [kind |-> "None", index |-> 0]

\* emit that records no location for the op
emit_without_location(c, op, position) ==
    IF c.err # "" THEN c ELSE [c EXCEPT !.ops = Append(@, op)]

emit(c, op, position) ==
    IF c.err # "" THEN c
    ELSE [c EXCEPT !.ops = Append(@, op), !.locs = Append(@, position)]

\* emit(op, previous_token.position)
emit_at_previous_token(c, op) == emit(c, op, c.pos)

\* The bytes a backslash may precede in a quoted literal
EscapedBytes == {"\\", "'", "\"", "\n", "\r", "\t", "NUL"}

RECURSIVE DecodeQuoted(_, _)
\* The escape loop: acc is what was pushed to texts so far
DecodeQuoted(text, acc) ==
    LET i == IndexOf(text, "\\", 1) IN
    IF i = 0 THEN [ok |-> TRUE, out |-> acc \o text]
    ELSE LET rest == SubSeq(text, i + 1, Len(text))
             pushed == acc \o SubSeq(text, 1, i - 1)
         IN  IF rest # <<>> /\ rest[1] \in EscapedBytes
             THEN DecodeQuoted(rest, Append(pushed, rest[1]))
             ELSE [ok |-> FALSE, out |-> pushed]

emit_push_literal_from_previous_token(c) ==
    IF c.err # "" THEN c
    ELSE
    LET tok == previous_token(c)
        start == Len(c.texts)
        dec == IF tok.kind = "Literal"
               THEN [ok |-> TRUE, out |-> tok.text]
               ELSE DecodeQuoted(SubSeq(tok.text, 2, Len(tok.text) - 1), <<>>)
        c1 == [c EXCEPT !.texts = @ \o dec.out]
        len == Len(c1.texts) - start
    IN  IF ~dec.ok THEN Fail(c1, "InvalidLiteralEscaping")
        ELSE IF len > U8_MAX THEN Fail(c1, "LiteralTooLong")
        ELSE emit(c1, OpPushStringLiteral(start % U16_RANGE, len), c.pos)

\* A call that pushes no placeholder for the flags of the command
no_flag_placeholders(c, k, position) == c

RECURSIVE emit_flag_placeholders(_, _, _)
\* One PushStringLiteral{0,0} for each declared flag of the command
emit_flag_placeholders(c, k, position) ==
    IF k = 0 THEN c
    ELSE emit_flag_placeholders(emit(c, OpPushStringLiteral(0, 0), position),
                                k - 1, position)

\* A literal expression: the literal is pushed and its token is passed
literal_expression(c) == next_token(emit_push_literal_from_previous_token(c))

RECURSIVE expression(_), command_call(_, _), call_arguments(_, _, _, _)

expression(c) ==
    IF c.err # "" THEN c
    ELSE LET tok == previous_token(c) IN
    CASE tok.kind = "EndOfLine" -> expression(next_token(c))
      [] tok.kind \in {"Literal", "QuotedLiteral"} -> literal_expression(c)
      [] tok.kind = "OpenParenthesis" ->
            consume_token(command_call(next_token(c), TRUE),
                          "CloseParenthesis")
      [] tok.kind = "Binding" ->
            LET index == find_binding_stack_index_from_previous_token(c) IN
            IF index >= 0
            THEN emit(next_token(c), OpDuplicateAt(index), c.pos)
            ELSE Fail(c, "UndeclaredBinding")
      [] OTHER -> Fail(c, "ExpectedExpression")

\* What a call emits in front of its arguments: the frame is prepared and
\* a builtin gets the placeholders of its flags
prepare_stack_frame(c, command_source, position) ==
    IF command_source.kind = "Builtin"
    THEN emit_flag_placeholders(
            emit(c, OpPrepareStackFrame, position),
            Len(BUILTIN_COMMANDS[command_source.index + 1].flags), position)
    ELSE emit(c, OpPrepareStackFrame, position)

\* The argument loop of command_call; calls written with flags are not modelled
call_arguments(c, command_source, ignore_end_of_line, arg_count) ==
    IF c.err # "" THEN c
    ELSE LET tok == previous_token(c) IN
    CASE tok.kind = "Flag" -> Fail(c, "NoSuchFlag")
      [] tok.kind = "EndOfLine" ->
            IF ignore_end_of_line
            THEN call_arguments(next_token(c), command_source,
                                ignore_end_of_line, arg_count)
            ELSE next_token(c)
      [] tok.kind \in {"CloseParenthesis", "CloseCurlyBrackets",
                       "EndOfSource"} -> c
      [] OTHER ->
            IF arg_count = U8_MAX THEN Fail(c, "WrongNumberOfArgs")
            ELSE call_arguments(expression(c), command_source,
                                ignore_end_of_line, arg_count + 1)

command_call(c, ignore_end_of_line) ==
    IF c.err # "" THEN c
    ELSE
    LET position == c.pos
        full == previous_token(c).text
        bang == full # <<>> /\ Last(full) = "!"
        command_name == IF bang THEN Front(full) ELSE full
        command_source == find_command(c.macros, hash_bytes(command_name))
    IN  IF command_source.kind = "None" THEN Fail(c, "NoSuchCommand")
        ELSE
        LET c4 == call_arguments(
                      prepare_stack_frame(consume_token(c, "Literal"),
                                          command_source, position),
                      command_source, ignore_end_of_line, 0)
            op == IF command_source.kind = "Builtin"
                  THEN OpCallBuiltinCommand(command_source.index, bang)
                  ELSE OpCallMacroCommand(command_source.index)
        IN  emit(c4, op, position)

expression_or_command_call(c) ==
    IF previous_token(c).kind = "Literal"
    THEN command_call(c, FALSE)
    ELSE expression(c)

Returned(c, b) == IF c.err # "" THEN c ELSE [c EXCEPT !.returned = b]

\* return <expression or call>: the value is computed and Return is emitted
return_statement(c) ==
    Returned(emit(expression_or_command_call(next_token(c)), OpReturn, c.pos),
             TRUE)

statement(c) ==
    IF c.err # "" THEN c
    ELSE LET tok == previous_token(c) IN
    \* a definition inside a block is todo!(); no evaluated source has one
    CASE tok.kind = "Literal" /\ tok.text = n_macro ->
            Fail(c, "ExpectedStatement")
      [] tok.kind = "Literal" /\ tok.text = n_return -> return_statement(c)
      [] tok.kind = "Literal" /\ tok.text \notin {n_macro, n_return} ->
            Returned(emit_at_previous_token(command_call(c, FALSE), OpPop),
                     FALSE)
      [] tok.kind = "OpenParenthesis" ->
            Returned(emit_at_previous_token(expression(c), OpPop), FALSE)
      [] tok.kind = "Binding" ->
            Returned(expression_or_command_call(
                        consume_token(
                            next_token(declare_binding_from_previous_token(c)),
                            "Equals")), FALSE)
      [] tok.kind = "EndOfLine" -> next_token(c)
      [] tok.kind = "EndOfSource" -> c
      [] OTHER -> Fail(c, "ExpectedStatement")

\* The end of a block of statements: a block whose last statement is not a
\* return yields the empty literal
end_of_block(c, position) ==
    IF c.err # "" \/ c.returned THEN c
    ELSE emit(emit(c, OpPushStringLiteral(0, 0), position), OpReturn, position)

RECURSIVE macro_parameters(_), macro_body(_)

macro_parameters(c) ==
    IF c.err # "" THEN c
    ELSE LET tok == previous_token(c) IN
    CASE tok.kind = "OpenCurlyBrackets" -> next_token(c)
      [] tok.kind = "Binding" ->
            macro_parameters(next_token(declare_binding_from_previous_token(c)))
      [] OTHER -> Fail(c, "ExpectedToken")

macro_body(c) ==
    IF c.err # "" THEN c
    ELSE LET tok == previous_token(c) IN
    CASE tok.kind = "CloseCurlyBrackets" -> c
      [] tok.kind = "EndOfSource" -> Fail(c, "ExpectedToken")
      [] OTHER -> macro_body(statement(c))

\* '_' | '-' | 'a'..='z' | 'A'..='Z' | '0'..='9'
IdentifierBytes ==
    {"_", "-",
     "a", "b", "c", "d", "e", "f", "g", "h", "i", "j", "k", "l", "m",
     "n", "o", "p", "q", "r", "s", "t", "u", "v", "w", "x", "y", "z",
     "A", "B", "C", "D", "E", "F", "G", "H", "I", "J", "K", "L", "M",
     "N", "O", "P", "Q", "R", "S", "T", "U", "V", "W", "X", "Y", "Z",
     "0", "1", "2", "3", "4", "5", "6", "7", "8", "9"}

\* macro_commands.push(MacroCommand { .. }); bindings_len = 0
push_macro_command(c, name_hash, op_start_index, param_count) ==
    IF c.err # "" THEN c
    ELSE [c EXCEPT !.macros = Append(@, [name_hash |-> name_hash,
                                         op_start_index |-> op_start_index,
                                         param_count |-> param_count]),
                   !.bindings = <<>>]

\* The closing bracket of a macro body, c being the state in front of it
end_of_macro_body(c) == end_of_block(next_token(c), c.pos)

\* macro_definition that registers the macro before it compiles the body
macro_definition_registers_first(c) ==
    IF c.err # "" THEN c
    ELSE IF previous_token(c).text # n_macro
    THEN Fail(c, "ExpectedMacroDefinition")
    ELSE
    LET c1 == consume_token(c, "Literal")
        name_hash == hash_bytes(previous_token(c1).text)
    IN  IF c1.err # "" THEN c1
        ELSE IF find_command(c1.macros, name_hash).kind # "None"
        THEN Fail(c1, "CommandAlreadyExists")
        ELSE
        LET c2 == macro_parameters(consume_token(c1, "Literal"))
            c3 == push_macro_command(c2, name_hash, Len(c2.ops),
                                     Len(c2.bindings))
            c4 == IF c3.err # "" THEN c3
                  ELSE [c3 EXCEPT !.bindings = c2.bindings]
            c5 == end_of_macro_body(macro_body(Returned(c4, FALSE)))
        IN  IF c5.err # "" THEN c5 ELSE [c5 EXCEPT !.bindings = <<>>]

macro_definition(c) ==
    IF c.err # "" THEN c
    ELSE IF previous_token(c).text # n_macro
    THEN Fail(c, "ExpectedMacroDefinition")
    ELSE
    LET c1 == consume_token(c, "Literal")
        name == previous_token(c1).text
        name_hash == hash_bytes(name)
    IN  IF c1.err # "" THEN c1
        ELSE IF \E i \in 1..Len(name) : name[i] \notin IdentifierBytes
        THEN Fail(c1, "InvalidMacroName")
        ELSE IF find_command(c1.macros, name_hash).kind # "None"
        THEN Fail(c1, "CommandAlreadyExists")
        ELSE
        LET c2 == macro_parameters(consume_token(c1, "Literal"))
            param_count == Len(c2.bindings)
            op_start_index == Len(c2.ops)
        IN  push_macro_command(
                end_of_macro_body(macro_body(Returned(c2, FALSE))),
                name_hash, op_start_index, param_count)

\* The lengths of the VirtualMachine's arrays
Lengths(c) ==
    [ops |-> Len(c.ops), texts |-> Len(c.texts), op_locations |-> Len(c.locs)]

RECURSIVE compile_definitions(_), compile_program(_)

\* First pass: the macro definitions of the source, in source order.  The
\* statements between them are parsed and what they emit is dropped.
compile_definitions(c) ==
    IF c.err # "" THEN c
    ELSE LET tok == previous_token(c) IN
    CASE tok.kind = "EndOfSource" -> c
      [] tok.kind # "EndOfSource" /\ tok.text = n_macro ->
            compile_definitions(macro_definition(c))
      [] OTHER ->
            compile_definitions([statement(c) EXCEPT !.ops = c.ops,
                                    !.locs = c.locs, !.texts = c.texts])

RECURSIVE CloseCurlyPosition(_, _)
\* The index of the first CloseCurlyBrackets token at or after i
CloseCurlyPosition(toks, i) ==
    IF i > Len(toks) \/ toks[i].kind = "CloseCurlyBrackets" THEN i
    ELSE CloseCurlyPosition(toks, i + 1)

\* The token after the definition that starts at previous_token
skip_macro_definition(c) ==
    [c EXCEPT !.pos = CloseCurlyPosition(c.toks, c.pos) + 1]

\* Second pass: the statements of the top level
compile_program(c) ==
    IF c.err # "" THEN c
    ELSE LET tok == previous_token(c) IN
    CASE tok.kind = "EndOfSource" -> c
      [] tok.kind # "EndOfSource" /\ tok.text = n_macro ->
            compile_program(skip_macro_definition(c))
      [] OTHER -> compile_program(statement(c))

\* compile: the compiler state at the end and definitions_len, the lengths
\* of ops, texts and op_locations once the definitions are emitted
compile_top_level(c) ==
    [c |-> end_of_block(compile_program([c EXCEPT !.pos = 1, !.bindings = <<>>,
                                                  !.returned = FALSE]),
                        Len(c.toks) + 1),
     definitions_len |-> Lengths(c)]

RECURSIVE compile_in_source_order(_)
\* One pass: definitions and statements emitted where the source has them
compile_in_source_order(c) ==
    IF c.err # "" THEN c
    ELSE LET tok == previous_token(c) IN
    CASE tok.kind = "EndOfSource" -> c
      [] tok.kind # "EndOfSource" /\ tok.text = n_macro ->
            compile_in_source_order(macro_definition(c))
      [] OTHER -> compile_in_source_order(statement(c))

compile_one_pass(c) ==
    [c |-> end_of_block(compile_in_source_order(c), Len(c.toks) + 1),
     definitions_len |-> Lengths(c)]

\* compile whose watermark is the lengths before anything was compiled
compile_watermark_at_start(c) ==
    [compile_top_level(compile_definitions(c))
        EXCEPT !.definitions_len = Lengths(c)]

compile(c) == compile_top_level(compile_definitions(c))

----------------------------------------------------------------------------
\* The sources that are evaluated

n_c == <<"c">>
n_m == <<"m">>
n_first == <<"f", "i", "r", "s", "t">>
n_second == <<"s", "e", "c", "o", "n", "d">>
n_sel == <<"s", "e", "l">>
n_b == <<"b">>
n_i == <<"i">>
n_o == <<"o">>
t_abc == <<"a", "b", "c">>
t_def == <<"d", "e", "f">>

\* The sources of tests::command_execution and tests::command_compiler, and
\* two whose macro returns the output of a builtin, one whose macro binds a
\* name, two whose macro reads a parameter after a macro it called returned,
\* one that passes the output of a builtin to a builtin, one whose macro
\* body reads a name that is not declared, one whose macro has the name of a
\* builtin, one whose macro passes on the output of a builtin it was given,
\* one whose macro calls itself
FixedSources ==
    << \* 1: ""
       <<>>,
       \* 2: return 'abc'
       <<Lit(n_return), Quo(t_abc)>>,
       \* 3: macro c { }
       <<Lit(n_macro), Lit(n_c), TokOpenCurly, TokCloseCurly>>,
       \* 4: macro c $a { return $a } \n c 'abc' \n c 'def'
       <<Lit(n_macro), Lit(n_c), Bnd(<<"a">>), TokOpenCurly, Lit(n_return),
         Bnd(<<"a">>), TokCloseCurly, TokEndOfLine, Lit(n_c), Quo(t_abc),
         TokEndOfLine, Lit(n_c), Quo(t_def)>>,
       \* 5: macro first $a $b { return $a } \n
       \*    macro second $a $b { return first $b x } \n
       \*    return append (first a y) (second a b)
       <<Lit(n_macro), Lit(n_first), Bnd(<<"a">>), Bnd(<<"b">>), TokOpenCurly,
         Lit(n_return), Bnd(<<"a">>), TokCloseCurly, TokEndOfLine,
         Lit(n_macro), Lit(n_second), Bnd(<<"a">>), Bnd(<<"b">>), TokOpenCurly,
         Lit(n_return), Lit(n_first), Bnd(<<"b">>), Lit(<<"x">>),
         TokCloseCurly, TokEndOfLine,
         Lit(n_return), Lit(n_append),
         TokOpenParen, Lit(n_first), Lit(<<"a">>), Lit(<<"y">>), TokCloseParen,
         TokOpenParen, Lit(n_second), Lit(<<"a">>), Lit(<<"b">>),
         TokCloseParen>>,
       \* 6: cmd '0' \n macro c $p { cmd $p } cmd '1'
       <<Lit(n_cmd), Quo(<<"0">>), TokEndOfLine,
         Lit(n_macro), Lit(n_c), Bnd(<<"p">>), TokOpenCurly, Lit(n_cmd),
         Bnd(<<"p">>), TokCloseCurly, Lit(n_cmd), Quo(<<"1">>)>>,
       \* 7: macro m $a { return append $a } \n return m x
       <<Lit(n_macro), Lit(n_m), Bnd(<<"a">>), TokOpenCurly, Lit(n_return),
         Lit(n_append), Bnd(<<"a">>), TokCloseCurly, TokEndOfLine,
         Lit(n_return), Lit(n_m), Lit(<<"x">>)>>,
       \* 8: macro second $a $b { return $b } \n
       \*    return second (append x) (append y)
       <<Lit(n_macro), Lit(n_second), Bnd(<<"a">>), Bnd(<<"b">>), TokOpenCurly,
         Lit(n_return), Bnd(<<"b">>), TokCloseCurly, TokEndOfLine,
         Lit(n_return), Lit(n_second),
         TokOpenParen, Lit(n_append), Lit(<<"x">>), TokCloseParen,
         TokOpenParen, Lit(n_append), Lit(<<"y">>), TokCloseParen>>,
       \* 9: macro b { $v = 'def' \n return $v } \n return b
       <<Lit(n_macro), Lit(n_b), TokOpenCurly, Bnd(<<"v">>), TokEquals,
         Quo(t_def), TokEndOfLine, Lit(n_return), Bnd(<<"v">>), TokCloseCurly,
         TokEndOfLine, Lit(n_return), Lit(n_b)>>,
       \* 10: macro i $a { return $a } \n
       \*     macro o $p { return append (i x) $p } \n return o z
       <<Lit(n_macro), Lit(n_i), Bnd(<<"a">>), TokOpenCurly, Lit(n_return),
         Bnd(<<"a">>), TokCloseCurly, TokEndOfLine,
         Lit(n_macro), Lit(n_o), Bnd(<<"p">>), TokOpenCurly, Lit(n_return),
         Lit(n_append), TokOpenParen, Lit(n_i), Lit(<<"x">>), TokCloseParen,
         Bnd(<<"p">>), TokCloseCurly, TokEndOfLine,
         Lit(n_return), Lit(n_o), Lit(<<"z">>)>>,
       \* 11: macro i $a { return $a } \n
       \*     macro o $p { i x \n return $p } \n return o z
       <<Lit(n_macro), Lit(n_i), Bnd(<<"a">>), TokOpenCurly, Lit(n_return),
         Bnd(<<"a">>), TokCloseCurly, TokEndOfLine,
         Lit(n_macro), Lit(n_o), Bnd(<<"p">>), TokOpenCurly,
         Lit(n_i), Lit(<<"x">>), TokEndOfLine, Lit(n_return),
         Bnd(<<"p">>), TokCloseCurly, TokEndOfLine,
         Lit(n_return), Lit(n_o), Lit(<<"z">>)>>,
       \* 12: return append (append x) y
       <<Lit(n_return), Lit(n_append), TokOpenParen, Lit(n_append),
         Lit(<<"x">>), TokCloseParen, Lit(<<"y">>)>>,
       \* 13: macro k { append x $u }
       <<Lit(n_macro), Lit(<<"k">>), TokOpenCurly, Lit(n_append),
         Lit(<<"x">>), Bnd(<<"u">>), TokCloseCurly>>,
       \* 14: macro append { }
       <<Lit(n_macro), Lit(n_append), TokOpenCurly, TokCloseCurly>>,
       \* 15: macro i $a { return $a } \n
       \*     macro o $p { i $p \n return 'k' } \n return o (append x)
       <<Lit(n_macro), Lit(n_i), Bnd(<<"a">>), TokOpenCurly, Lit(n_return),
         Bnd(<<"a">>), TokCloseCurly, TokEndOfLine,
         Lit(n_macro), Lit(n_o), Bnd(<<"p">>), TokOpenCurly,
         Lit(n_i), Bnd(<<"p">>), TokEndOfLine, Lit(n_return),
         Quo(<<"k">>), TokCloseCurly, TokEndOfLine,
         Lit(n_return), Lit(n_o), TokOpenParen, Lit(n_append), Lit(<<"x">>),
         TokCloseParen>>,
       \* 16: macro r { r } \n r
       <<Lit(n_macro), Lit(<<"r">>), TokOpenCurly, Lit(<<"r">>),
         TokCloseCurly, TokEndOfLine, Lit(<<"r">>)>> >>

ParamNames == <<"a", "b", "c", "d", "e", "f">>
ArgTexts == <<t_abc, <<"d">>, <<"e", "f">>, <<"g">>, <<"h", "i">>, <<"j">>>>

\* The j-th argument literal of a generated source: quoted when j is odd
ArgToken(j) == IF j % 2 = 1 THEN Quo(ArgTexts[j]) ELSE Lit(ArgTexts[j])

\* macro sel $a .. { return $<i-th> } \n return sel <n argument literals>
SelSource(n, i) ==
    <<Lit(n_macro), Lit(n_sel)>>
    \o [j \in 1..n |-> Bnd(<<ParamNames[j]>>)]
    \o <<TokOpenCurly, Lit(n_return), Bnd(<<ParamNames[i]>>), TokCloseCurly,
         TokEndOfLine, Lit(n_return), Lit(n_sel)>>
    \o [j \in 1..n |-> ArgToken(j)]

\* The name a builtin is called by (0-based index)
BuiltinName(b) == IF b = 0 THEN n_cmd ELSE n_append

\* <builtin>[!] <n argument literals>
CallSource(b, bang, n) ==
    <<Lit(BuiltinName(b) \o (IF bang = 1 THEN <<"!">> ELSE <<>>))>>
    \o [j \in 1..n |-> ArgToken(j)]

\* A source is named by a record: fam "fixed" (a: index in FixedSources),
\* "sel" (a: parameters, b: the returned one), "call" (a: builtin, b: bang,
\* c: arguments)
SourceId(fam, a, b, c) == [fam |-> fam, a |-> a, b |-> b, c |-> c]
NoSource == SourceId("none", 0, 0, 0)

SourceIds ==
    {SourceId("fixed", k, 0, 0) : k \in 1..Len(FixedSources)}
    \cup {id \in {SourceId("sel", n, i, 0) :
                      n \in 1..MaxParams, i \in 1..MaxParams} : id.b <= id.a}
    \cup {SourceId("call", b, bang, n) :
            b \in 0..(Len(BUILTIN_COMMANDS) - 1), bang \in 0..1,
            n \in 0..MaxArgs}

Tokens(id) ==
    CASE id.fam = "fixed" -> FixedSources[id.a]
      [] id.fam = "sel" -> SelSource(id.a, id.b)
      [] id.fam = "call" -> CallSource(id.a, id.b, id.c)
      [] OTHER -> <<>>

----------------------------------------------------------------------------
\* CommandManager::eval and execute

\* The text a stack value denotes
ValueOk(v, t) == SliceOk(t, v.start, v.end)
ValueText(v, t) == Slice(t, v.start, v.end)

\* ops[op_index]
CurrentOp == ops[op_index + 1]
Executing(name) ==
    /\ phase = "exec"
    /\ op_index < Len(ops)
    /\ CurrentOp.op = name

\* A panic (unwrap of None, an index or a slice out of bounds) ends the process
Panic ==
    /\ phase' = "panicked"
    /\ result' = "panic"
    /\ UNCHANGED <<ops, op_locations, texts, value_stack, frames,
                   prepared_frames, macro_commands, op_index,
                   start_stack_index, initial_texts_len, definitions_len,
                   source, output, evals>>

\* One iteration of the loop of execute that does not return
Continue(new_texts, new_stack, new_frames, new_prepared, new_index, new_start) ==
    /\ texts' = new_texts
    /\ value_stack' = new_stack
    /\ frames' = new_frames
    /\ prepared_frames' = new_prepared
    /\ op_index' = new_index
    /\ start_stack_index' = new_start
    /\ UNCHANGED <<ops, op_locations, macro_commands, phase,
                   initial_texts_len, definitions_len, source, result,
                   output, evals>>

\* eval after compile returned r, up to the first iteration of execute
Compiled(r) ==
    /\ ops' = r.c.ops
    /\ op_locations' = r.c.locs
    /\ texts' = r.c.texts
    /\ macro_commands' = r.c.macros
    /\ IF r.c.err # ""
       THEN /\ result' = r.c.err
            /\ UNCHANGED <<phase, op_index, start_stack_index,
                           initial_texts_len, definitions_len>>
       ELSE /\ result' = "Running"
            /\ phase' = "exec"
            /\ definitions_len' = r.definitions_len
            /\ op_index' = r.definitions_len.ops
            /\ start_stack_index' = 0
            /\ initial_texts_len' = Len(r.c.texts)

Eval(id) ==
    /\ phase = "idle"
    /\ evals < MaxEvals
    /\ Compiled(compile(NewCompiler(Tokens(id), ops, op_locations, texts,
                                    macro_commands)))
    /\ source' = id
    /\ output' = <<>>
    /\ evals' = evals + 1
    /\ UNCHANGED <<value_stack, frames, prepared_frames>>

\* Return that goes back to the call itself
ReturnToCall(frame) == frame.op_index

\* The op index after Return popped frame: op_index = frame.op_index, then
\* the op_index += 1 that ends the iteration
ReturnOpIndex(frame) == frame.op_index + 1

\* Return that cuts the text arena at the start of the returned value
ReturnValueCutAtValue(frame, value, t) ==
    [texts |-> Truncate(t, value.start), value |-> value]

\* The value Return leaves for the caller and the text arena after it
ReturnValue(frame, value, t) ==
    IF value.start > frame.texts_len
    THEN LET return_text_start == frame.texts_len
             return_text_len == value.end - value.start
         IN  [texts |-> SubSeq(t, 1, return_text_start)
                        \o Slice(t, value.start, value.end),
              value |-> StackValue(return_text_start, return_text_len)]
    ELSE [texts |-> Truncate(t, frame.texts_len), value |-> value]

ExecReturn ==
    /\ Executing("Return")
    /\ IF frames = <<>>
       THEN /\ phase' = "executed"
            /\ UNCHANGED <<ops, op_locations, texts, value_stack, frames,
                           prepared_frames, macro_commands, op_index,
                           start_stack_index, initial_texts_len,
                           definitions_len, source, result, output, evals>>
       ELSE LET frame == Last(frames) IN
            IF value_stack = <<>>
               \/ (Last(value_stack).start > frame.texts_len
                   /\ ~ValueOk(Last(value_stack), texts))
            THEN Panic
            ELSE LET r == ReturnValue(frame, Last(value_stack), texts) IN
                 Continue(r.texts,
                          Append(Truncate(value_stack, frame.stack_len), r.value),
                          Front(frames), prepared_frames,
                          ReturnOpIndex(frame), frame.stack_len)

\* Pop that cuts the arena at the start of any value that ends where the
\* arena ends
PopTextsAnyTail(value, t) ==
    IF value.end = Len(t) THEN Truncate(t, value.start) ELSE t

\* The text arena after Pop took value off the stack
PopTexts(value, t) ==
    LET texts_start == IF frames # <<>> THEN Last(frames).texts_len
                       ELSE initial_texts_len
    IN  IF value.start = texts_start /\ value.end = Len(t)
        THEN Truncate(t, texts_start)
        ELSE t

ExecPop ==
    /\ Executing("Pop")
    /\ IF value_stack = <<>> THEN Panic
       ELSE Continue(PopTexts(Last(value_stack), texts), Front(value_stack),
                     frames, prepared_frames, op_index + 1, start_stack_index)

\* PushStringLiteral whose value ends one byte late
PushStringLiteralOneMore(op) == StackValue(op.start, op.start + op.len + 1)

PushStringLiteralValue(op) == StackValue(op.start, op.start + op.len)

ExecPushStringLiteral ==
    /\ Executing("PushStringLiteral")
    /\ Continue(texts, Append(value_stack, PushStringLiteralValue(CurrentOp)),
                frames, prepared_frames, op_index + 1, start_stack_index)

\* DuplicateAt that copies the top of the stack whatever its index
DuplicateAtTop(stack_index) == Len(value_stack)

\* The 1-based slot DuplicateAt(stack_index) copies
DuplicateAtSlot(stack_index) == start_stack_index + stack_index + 1

ExecDuplicateAt ==
    /\ Executing("DuplicateAt")
    /\ LET slot == DuplicateAtSlot(CurrentOp.index) IN
       IF slot > Len(value_stack) THEN Panic
       ELSE Continue(texts, Append(value_stack, value_stack[slot]), frames,
                     prepared_frames, op_index + 1, start_stack_index)

ExecPrepareStackFrame ==
    /\ Executing("PrepareStackFrame")
    /\ Continue(texts, value_stack, frames,
                Append(prepared_frames,
                       StackFrame(0, Len(texts), Len(value_stack))),
                op_index + 1, start_stack_index)

\* What the function of builtin index does when called with the arguments
\* that start at stack_index: res, and out, the text it writes with
\* write_output
BuiltinFunc(index, stack_index, bang) ==
    LET args == SubSeq(value_stack, stack_index + 1, Len(value_stack)) IN
    IF BUILTIN_COMMANDS[index + 1].func = "append"
    THEN IF \A i \in 1..Len(args) : ValueOk(args[i], texts)
         THEN [res |-> "OkNone",
               out |-> Concat([i \in 1..Len(args) |-> ValueText(args[i], texts)])]
         ELSE [res |-> "panic", out |-> <<>>]
    ELSE [res |-> "OkNone", out |-> <<>>]

\* drain that removes nothing
DrainNothing(t, from, to) == t

\* String::drain(from..to): t without the bytes from..to (0-based, to
\* excluded)
Drain(t, from, to) == SubSeq(t, 1, from) \o SubSeq(t, to + 1, Len(t))

ExecCallBuiltinCommand ==
    /\ Executing("CallBuiltinCommand")
    /\ IF prepared_frames = <<>> THEN Panic
       ELSE
       LET frame == Last(prepared_frames)
           return_start == Len(texts)
           r == BuiltinFunc(CurrentOp.index, frame.stack_len, CurrentOp.bang)
           written == texts \o r.out
           drained == Drain(written, frame.texts_len, return_start)
       IN  IF r.res = "panic" \/ frame.texts_len > return_start THEN Panic
           ELSE Continue(drained,
                         Append(Truncate(value_stack, frame.stack_len),
                                StackValue(frame.texts_len, Len(drained))),
                         frames, Front(prepared_frames), op_index + 1,
                         start_stack_index)

\* CallBuiltinCommand whose function returns Err(kind): the frame goes on
\* frames with the op index of the call and execute returns the error, which
\* eval returns to its caller
ExecCallBuiltinCommandErr ==
    /\ Executing("CallBuiltinCommand")
    /\ prepared_frames # <<>>
    /\ op_index < Len(op_locations)
    /\ frames' = Append(frames,
                        [Last(prepared_frames) EXCEPT !.op_index = op_index])
    /\ prepared_frames' = Front(prepared_frames)
    /\ phase' = "idle"
    /\ result' = "Err"
    /\ UNCHANGED <<ops, op_locations, texts, value_stack, macro_commands,
                   op_index, start_stack_index, initial_texts_len,
                   definitions_len, source, output, evals>>

ExecCallMacroCommand ==
    /\ Executing("CallMacroCommand")
    /\ IF prepared_frames = <<>> THEN Panic
       ELSE
       LET frame == Last(prepared_frames)
           command == macro_commands[CurrentOp.index + 1]
       IN  Continue(texts, value_stack,
                    Append(frames, [frame EXCEPT !.op_index = op_index]),
                    Front(prepared_frames), command.op_start_index,
                    frame.stack_len)

\* eval that reads the result and leaves it on the stack
EvalFinishKeepsValue ==
    /\ phase = "executed"
    /\ IF value_stack = <<>> \/ ~ValueOk(Last(value_stack), texts)
       THEN Panic
       ELSE /\ output' = ValueText(Last(value_stack), texts)
            /\ ops' = Truncate(ops, definitions_len.ops)
            /\ texts' = Truncate(texts, definitions_len.texts)
            /\ op_locations' = Truncate(op_locations,
                                        definitions_len.op_locations)
            /\ phase' = "idle"
            /\ result' = "Ok"
            /\ UNCHANGED <<value_stack, frames, prepared_frames,
                           macro_commands, op_index, start_stack_index,
                           initial_texts_len, definitions_len, source, evals>>

\* eval after execute returned Ok
EvalFinish ==
    /\ phase = "executed"
    /\ IF value_stack = <<>> \/ ~ValueOk(Last(value_stack), texts)
       THEN Panic
       ELSE /\ output' = ValueText(Last(value_stack), texts)
            /\ value_stack' = Front(value_stack)
            /\ ops' = Truncate(ops, definitions_len.ops)
            /\ texts' = Truncate(texts, definitions_len.texts)
            /\ op_locations' = Truncate(op_locations,
                                        definitions_len.op_locations)
            /\ phase' = "idle"
            /\ result' = "Ok"
            /\ UNCHANGED <<frames, prepared_frames, macro_commands, op_index,
                           start_stack_index, initial_texts_len,
                           definitions_len, source, evals>>

VMInit ==
    /\ ops = <<>> /\ op_locations = <<>> /\ texts = <<>>
    /\ value_stack = <<>> /\ frames = <<>> /\ prepared_frames = <<>>
    /\ macro_commands = <<>>
    /\ phase = "idle" /\ op_index = 0 /\ start_stack_index = 0
    /\ initial_texts_len = 0
    /\ definitions_len = [ops |-> 0, texts |-> 0, op_locations |-> 0]
    /\ source = NoSource /\ result = "None" /\ output = <<>> /\ evals = 0

----------------------------------------------------------------------------
\* Mode and the Command mode

ModeKinds == {"Normal", "Insert", "Command", "ReadLine", "Picker"}

\* ModeKind::default()
DefaultModeKind == "Normal"

\* The part of the Editor that the hooks of the modes act on
Editor ==
    [kind |-> kind, hooks |-> hooks, read_line |-> read_line,
     picker_state |-> picker_state, history |-> history]

\* An entry of hooks: the call of change_to(next) (mode: next), or the
\* on_exit or on_enter that match editor.mode.kind dispatched (mode: the mode
\* whose hook ran); kind is editor.mode.kind at that moment
Hook(name, mode, e) == [hook |-> name, mode |-> mode, kind |-> e.kind]

Logged(e, name, mode) == [e EXCEPT !.hooks = Append(@, Hook(name, mode, e))]

\* PickerState
NavigatingHistory(i) == [state |-> "NavigatingHistory", index |-> i]
TypingCommand(completion) ==
    [state |-> "TypingCommand", completion |-> completion]

\* on_enter that leaves the picker state as it is
command_on_enter_keeps_picker(e) ==
    [e EXCEPT !.read_line = [prompt |-> <<":">>, input |-> <<>>]]

\* command::State::on_enter
command_on_enter(e) ==
    [e EXCEPT !.picker_state = NavigatingHistory(Len(e.history)),
              !.read_line = [prompt |-> <<":">>, input |-> <<>>]]

\* on_exit that leaves the input as it is
command_on_exit_keeps_input(e) == e

\* command::State::on_exit
command_on_exit(e) == [e EXCEPT !.read_line.input = <<>>]

\* match editor.mode.kind { .. => on_exit(..) }
on_exit(e) ==
    IF e.kind = "Command" THEN command_on_exit(Logged(e, "on_exit", e.kind))
    ELSE Logged(e, "on_exit", e.kind)

\* match editor.mode.kind { .. => on_enter(..) }
on_enter(e) ==
    IF e.kind = "Command" THEN command_on_enter(Logged(e, "on_enter", e.kind))
    ELSE Logged(e, "on_enter", e.kind)

\* editor.mode.kind = next
store_kind(e, next) == [e EXCEPT !.kind = next]

\* change_to that enters the next mode before it stores it
change_to_enter_before_store(e, next) ==
    store_kind(on_enter(on_exit(Logged(e, "change_to", next))), next)

\* Mode::change_to
change_to(e, next) ==
    on_enter(store_kind(on_exit(Logged(e, "change_to", next)), next))

\* StatusBar::write(kind) followed by the message
StatusBarWrite(k, message) == [kind |-> k, message |-> message]

\* StatusBar::new
StatusBarNew == StatusBarWrite("Info", <<>>)

\* The characters that are typed, and the most that are typed into an input
InputChars == {"q", " ", "-", "U+00E9"}
MaxInput == 2

\* The UTF-8 encoding of a character, and the bytes that continue a character
Utf8(c) == IF c = "U+00E9" THEN <<"0xC3", "0xA9">> ELSE <<c>>
ContinuationBytes == {"0xA9"}

\* The index of the last byte, whatever character it belongs to
LastByteIndex(input, i) == i - 1

RECURSIVE LastCharIndex(_, _)
\* input.char_indices().rev().next(): the 0-based byte index of the last
\* character of input[0..i), for a non-empty input
LastCharIndex(input, i) ==
    IF i <= 1 \/ input[i] \notin ContinuationBytes THEN i - 1
    ELSE LastCharIndex(input, i - 1)

\* let mut command_buf = [0; 256]
COMMAND_BUF_LEN == 256

\* An input that is refused when it fills the buffer
too_long_at_limit(input) == Len(input) >= COMMAND_BUF_LEN

\* input.len() > command_buf.len()
too_long(input) == Len(input) > COMMAND_BUF_LEN

\* format_args!("command is too long. max is {} bytes. got {}", ..)
TooLongMessage(got) ==
    <<"command is too long. max is ", ToString(COMMAND_BUF_LEN),
      " bytes. got ", ToString(got)>>

\* What CommandManager::eval_command returns
EvalResults ==
    {"OkNone", "OkQuit", "OkQuitAll", "ErrAborted", "ErrNoSuchCommand",
     "ErrTooManyArguments"}

\* error.display(command, buffers)
ErrorDisplay(res) ==
    CASE res = "ErrNoSuchCommand" -> <<"no such command">>
      [] res = "ErrTooManyArguments" -> <<"too many arguments">>
      [] OTHER -> <<>>

\* What the command that eval_command runs does besides: it may write a
\* message to the status bar, and it may change the mode
EvalEffects ==
    [res : EvalResults, wrote : BOOLEAN, mode : {"keep", "Insert", "Command"}]

\* char::is_ascii_whitespace
AsciiWhitespace == {" ", "\t", "\n", "\f", "\r"}

starts_with_whitespace(input) ==
    input # <<>> /\ input[1] \in AsciiWhitespace

\* add_to_history that stores whatever it is given
add_to_history_unchecked(h, entry) ==
    IF Len(h) = history_capacity THEN Append(Tail(h), entry)
    ELSE Append(h, entry)

\* add_to_history that does not compare the entry with the newest one
add_to_history_repeats(h, entry) ==
    IF entry = <<>> \/ starts_with_whitespace(entry) THEN h
    ELSE IF Len(h) = history_capacity THEN Append(Tail(h), entry)
    ELSE Append(h, entry)

\* CommandManager::add_to_history
add_to_history(h, entry) ==
    IF entry = <<>> \/ starts_with_whitespace(entry) THEN h
    ELSE IF h # <<>> /\ Last(h) = entry THEN h
    ELSE IF Len(h) = history_capacity THEN Append(Tail(h), entry)
    ELSE Append(h, entry)

\* Submitted that adds nothing to the history
SubmittedHistoryUnchanged == history

\* The history once Submitted added the input to it
SubmittedHistory ==
    IF ~starts_with_whitespace(read_line.input)
    THEN add_to_history(history, read_line.input)
    ELSE history

\* The Editor and the status bar when eval_command returned
EvaluatedEditor(effect) ==
    IF effect.mode = "keep" THEN [Editor EXCEPT !.history = SubmittedHistory]
    ELSE change_to([Editor EXCEPT !.history = SubmittedHistory], effect.mode)

EvaluatedStatusBar(effect) ==
    IF effect.wrote THEN StatusBarWrite("Info", <<"output">>) ELSE status_bar

\* match op { .. } of Submitted that treats Aborted as any other error
SubmittedReportsAborted(res, evaluated_status_bar) ==
    CASE res = "OkNone" ->
            [op |-> "None", status_bar |-> evaluated_status_bar]
      [] res = "OkQuit" ->
            [op |-> "Quit", status_bar |-> evaluated_status_bar]
      [] res = "OkQuitAll" ->
            [op |-> "QuitAll", status_bar |-> evaluated_status_bar]
      [] OTHER ->
            [op |-> "None",
             status_bar |-> StatusBarWrite("Error", ErrorDisplay(res))]

\* match op { .. } of Submitted: the ModeOperation and the status bar
SubmittedOperation(res, evaluated_status_bar) ==
    CASE res \in {"OkNone", "ErrAborted"} ->
            [op |-> "None", status_bar |-> evaluated_status_bar]
      [] res = "OkQuit" ->
            [op |-> "Quit", status_bar |-> evaluated_status_bar]
      [] res = "OkQuitAll" ->
            [op |-> "QuitAll", status_bar |-> evaluated_status_bar]
      [] OTHER ->
            [op |-> "None",
             status_bar |-> StatusBarWrite("Error", ErrorDisplay(res))]

\* The Editor after a handler
SetEditor(e) ==
    /\ kind' = e.kind
    /\ hooks' = e.hooks
    /\ read_line' = e.read_line
    /\ picker_state' = e.picker_state
    /\ history' = e.history

\* A handler returned
Handled(pc, op) ==
    /\ mode_pc' = pc
    /\ mode_op' = op
    /\ steps' = steps + 1

\* keys.next() returned k ("None": the handler was not called for a key)
Polled(k) ==
    /\ key' = k
    /\ UNCHANGED <<history_capacity, added_entry>>

\* Mode::change_to called from outside the Command mode
ChangeTo(next) ==
    /\ steps < MaxSteps
    /\ SetEditor(change_to(Editor, next))
    /\ Handled("changed", "None")
    /\ Polled("None")
    /\ UNCHANGED completion_index
    /\ UNCHANGED <<status_bar, eval_outcome>>

\* The tokens of the input of the read line: the runs of characters that
\* are not whitespace.  The number of tokens, and the byte offset of the
\* first one.
TokenStarts(input) ==
    {i \in 1..Len(input) :
        /\ input[i] \notin AsciiWhitespace
        /\ i = 1 \/ input[i - 1] \in AsciiWhitespace}

FirstTokenOffset(input) ==
    (CHOOSE i \in TokenStarts(input) : \A j \in TokenStarts(input) : i <= j) - 1

\* update_autocomplete_entries: the picker state and completion_index after
\* it.  Nothing is done while the history is navigated; an input without a
\* token goes back to the history; an input that is one token is the name
\* of a command.
update_autocomplete_entries(state, input, history_len) ==
    IF state.picker_state.state = "NavigatingHistory" THEN state
    ELSE IF TokenStarts(input) = {}
    THEN [picker_state |-> NavigatingHistory(history_len),
          completion_index |-> 0]
    ELSE IF Cardinality(TokenStarts(input)) = 1
    THEN [picker_state |-> TypingCommand("CommandName"),
          completion_index |-> FirstTokenOffset(input)]
    ELSE state

\* The `_ => update_autocomplete_entries(ctx)` arm of Pending, input being
\* the input the read line holds after the key
Autocompleted(input) ==
    LET state == update_autocomplete_entries(
                    [picker_state |-> picker_state,
                     completion_index |-> completion_index],
                    input, Len(history))
    IN  /\ picker_state' = state.picker_state
        /\ completion_index' = state.completion_index

\* on_client_keys of the Command mode, poll returning Pending: Key::Char(c)
KeyChar(c) ==
    /\ steps < MaxSteps
    /\ kind = "Command"
    /\ Len(read_line.input) < MaxInput
    /\ read_line' = [read_line EXCEPT !.input = @ \o Utf8(c)]
    /\ Handled("pending", "None")
    /\ Polled("Char")
    /\ Autocompleted(read_line'.input)
    /\ UNCHANGED <<kind, hooks, history, status_bar, eval_outcome>>

\* poll returning Pending: Key::Backspace | Key::Ctrl('h')
KeyBackspace ==
    /\ steps < MaxSteps
    /\ kind = "Command"
    /\ read_line' = [read_line EXCEPT !.input =
                        IF @ = <<>> THEN @
                        ELSE Truncate(@, LastCharIndex(@, Len(@)))]
    /\ Handled("pending", "None")
    /\ \E k \in {"Backspace", "Ctrl-h"} : Polled(k)
    /\ Autocompleted(read_line'.input)
    /\ UNCHANGED <<kind, hooks, history, status_bar, eval_outcome>>

\* WordKind::from_char on the bytes of the characters of InputChars
WordKind(b) ==
    IF b \in {" ", "\t"} THEN "Whitespace"
    ELSE IF b = "-" THEN "Symbol"
    ELSE "Identifier"

\* WordIter::next_back: where the last word of a text that is not empty
\* begins (0-based).  A word is a run of identifier characters, a run of
\* whitespace, or one symbol.
next_back(text) ==
    IF WordKind(Last(text)) = "Symbol" THEN Len(text) - 1
    ELSE (CHOOSE i \in 1..Len(text) :
            /\ \A j \in i..Len(text) : WordKind(text[j]) = WordKind(Last(text))
            /\ i = 1 \/ WordKind(text[i - 1]) # WordKind(Last(text))) - 1

\* What is left of the words when only the last word is taken, of whatever
\* kind
any_next_back(text) ==
    IF text = <<>> THEN <<>> ELSE Truncate(text, next_back(text))

RECURSIVE filter_next_back(_)
\* words.0 after (&mut words).filter(|w| w.kind == Identifier).next_back():
\* words are taken from the back until an identifier word was taken or none
\* is left
filter_next_back(text) ==
    IF text = <<>> THEN <<>>
    ELSE IF WordKind(Last(text)) = "Identifier"
         THEN Truncate(text, next_back(text))
         ELSE filter_next_back(Truncate(text, next_back(text)))

\* poll returning Pending: Key::Ctrl('w')
KeyCtrlW ==
    /\ steps < MaxSteps
    /\ kind = "Command"
    /\ read_line' = [read_line EXCEPT !.input =
                        Truncate(@, Len(filter_next_back(@)))]
    /\ Handled("pending", "None")
    /\ Polled("Ctrl-w")
    /\ Autocompleted(read_line'.input)
    /\ UNCHANGED <<kind, hooks, history, status_bar, eval_outcome>>

\* A text of n bytes
Filled(n) == [i \in 1..n |-> "q"]

\* What platform.read_from_clipboard gives: whether it read, and the text
Clipboards ==
    [ok : BOOLEAN,
     text : {Filled(COMMAND_BUF_LEN), Filled(COMMAND_BUF_LEN + 1),
             <<"q">> \o Utf8("U+00E9"), <<"q", "-", "q", " ">>}]

\* poll returning Pending: Key::Ctrl('y')
KeyCtrlY(clipboard) ==
    /\ steps < MaxSteps
    /\ kind = "Command"
    /\ Len(read_line.input) <= MaxInput
    /\ read_line' = [read_line EXCEPT !.input =
                        IF clipboard.ok THEN @ \o clipboard.text ELSE @]
    /\ Handled("pending", "None")
    /\ Polled("Ctrl-y")
    /\ Autocompleted(read_line'.input)
    /\ UNCHANGED <<kind, hooks, history, status_bar, eval_outcome>>

\* CommandManager::history_entry
history_entry(h, index) == IF index < Len(h) THEN h[index + 1] ELSE <<>>

\* The index after Ctrl-n that is not held back by the length of the history
next_index_unbounded(i, history_len) == i + 1

\* history_len().saturating_sub(1).min(*i + 1)
next_index(i, history_len) ==
    LET last == IF history_len = 0 THEN 0 ELSE history_len - 1
    IN  IF last < i + 1 THEN last ELSE i + 1

\* i.saturating_sub(1)
previous_index(i) == IF i = 0 THEN 0 ELSE i - 1

\* The picker state and the input after a key of the history: index is the
\* index the key moves to.  In TypingCommand the key moves the cursor of
\* the picker (apply_completion), which is not part of this model.
Navigated(index) ==
    IF picker_state.state = "NavigatingHistory"
    THEN /\ picker_state' = NavigatingHistory(index)
         /\ read_line' = [read_line EXCEPT
                            !.input = history_entry(history, index)]
    ELSE UNCHANGED <<picker_state, read_line>>

\* poll returning Pending: Key::Ctrl('n') | Key::Ctrl('j')
KeyCtrlN ==
    /\ steps < MaxSteps
    /\ kind = "Command"
    /\ Navigated(IF picker_state.state = "NavigatingHistory"
                 THEN next_index(picker_state.index, Len(history)) ELSE 0)
    /\ Handled("pending", "None")
    /\ \E k \in {"Ctrl-n", "Ctrl-j"} : Polled(k)
    /\ UNCHANGED completion_index
    /\ UNCHANGED <<kind, hooks, history, status_bar, eval_outcome>>

\* poll returning Pending: Key::Ctrl('p') | Key::Ctrl('k')
KeyCtrlP ==
    /\ steps < MaxSteps
    /\ kind = "Command"
    /\ Navigated(IF picker_state.state = "NavigatingHistory"
                 THEN previous_index(picker_state.index) ELSE 0)
    /\ Handled("pending", "None")
    /\ \E k \in {"Ctrl-p", "Ctrl-k"} : Polled(k)
    /\ UNCHANGED completion_index
    /\ UNCHANGED <<kind, hooks, history, status_bar, eval_outcome>>

\* The entries that are added to the history: each new one differs from all
\* that are stored
HistoryNames ==
    <<"a", "b", "c", "d", "e", "f", "g", "h", "i", "j", "k", "l", "m", "n",
      "o", "p", "q">>

NextEntry(h) ==
    IF h = <<>> THEN <<HistoryNames[1]>>
    ELSE LET i == CHOOSE j \in 1..Len(HistoryNames) :
                        HistoryNames[j] = Last(h)[1]
         IN  <<HistoryNames[(i % Len(HistoryNames)) + 1]>>

\* An entry not stored, the newest entry again, the empty entry, entries
\* that start with whitespace
HistoryEntries(h) ==
    {NextEntry(h), <<>>, <<" ", "a">>, <<"\t">>}
    \cup (IF h = <<>> THEN {} ELSE {Last(h)})

\* CommandManager::add_to_history called with e; in Command mode it is
\* Submitted that calls it
AddToHistory(e) ==
    /\ kind # "Command"
    /\ history' = add_to_history(history, e)
    /\ added_entry' = e
    /\ mode_pc' = "added"
    /\ UNCHANGED <<kind, hooks, read_line, picker_state, status_bar,
                   eval_outcome, mode_op, steps, key, history_capacity,
                   completion_index>>

\* poll returning Canceled: Key::Esc
KeyEsc ==
    /\ steps < MaxSteps
    /\ kind = "Command"
    /\ SetEditor(change_to(Editor, DefaultModeKind))
    /\ Handled("canceled", "None")
    /\ Polled("Esc")
    /\ UNCHANGED completion_index
    /\ UNCHANGED <<status_bar, eval_outcome>>

\* Submitted that returns without looking at the mode
StayInMode(e) == SetEditor(e)

\* The end of Submitted: e is the Editor when eval_command returned
LeaveCommandMode(e) ==
    SetEditor(IF e.kind = "Command" THEN change_to(e, DefaultModeKind) ELSE e)

\* The rest of Submitted once eval_command returned
Evaluated(effect, submitted) ==
    /\ status_bar' = submitted.status_bar
    /\ eval_outcome' = [res |-> effect.res,
                        status_bar |-> EvaluatedStatusBar(effect),
                        calls |-> eval_outcome.calls + 1]
    /\ LeaveCommandMode(EvaluatedEditor(effect))
    /\ Handled("submitted", submitted.op)

\* poll returning Submitted: Key::Enter
KeyEnter(effect) ==
    /\ steps < MaxSteps
    /\ kind = "Command"
    /\ Polled("Enter")
    /\ UNCHANGED completion_index
    /\ IF too_long(read_line.input)
       THEN /\ status_bar' = StatusBarWrite("Error",
                                TooLongMessage(Len(read_line.input)))
            /\ history' = SubmittedHistory
            /\ Handled("too_long", "None")
            /\ UNCHANGED <<kind, hooks, read_line, picker_state,
                           eval_outcome>>
       ELSE Evaluated(effect,
                      SubmittedOperation(effect.res,
                                         EvaluatedStatusBar(effect)))

NoOutcome == [res |-> "None", status_bar |-> StatusBarNew, calls |-> 0]

RECURSIVE NextPowerOfTwo(_, _)
\* usize::next_power_of_two: the least power of two p * 2^k that is >= n
NextPowerOfTwo(n, p) == IF p >= n THEN p ELSE NextPowerOfTwo(n, 2 * p)

\* VecDeque::with_capacity(n).capacity(): n where the buffer is allocated as
\* asked, next_power_of_two(n + 1) - 1 with the ring buffer of older
\* releases of the standard library
VecDequeCapacities(n) == {n, NextPowerOfTwo(n + 1, 1) - 1}

ModeInit ==
    /\ kind = DefaultModeKind
    /\ hooks = <<>>
    /\ read_line = [prompt |-> <<>>, input |-> <<>>]
    /\ picker_state = TypingCommand("Dirty")
    /\ history = <<>>
    /\ status_bar = StatusBarNew
    /\ mode_pc = "idle"
    /\ eval_outcome = NoOutcome
    /\ mode_op = "None"
    /\ steps = 0
    /\ key = "None"
    /\ history_capacity \in VecDequeCapacities(HISTORY_CAPACITY)
    /\ added_entry = <<>>
    /\ completion_index = 0

----------------------------------------------------------------------------
\* Key and Key::parse.  A text is a sequence of characters; a key is a tag
\* and, for F, Char, Ctrl and Alt, an argument (the number of F in decimal).

Key(tag, arg) == [tag |-> tag, arg |-> arg]

NamedKeys ==
    {"Backspace", "Enter", "Left", "Right", "Up", "Down", "Home", "End",
     "PageUp", "PageDown", "Tab", "Delete", "Esc"}

DigitChars == <<"0", "1", "2", "3", "4", "5", "6", "7", "8", "9">>

\* char::is_ascii_alphanumeric on the characters that are enumerated
AsciiAlphanumeric == {"a", "z", "A", "Z", "0", "9"}

\* The characters enumerated that are not ASCII
NonAscii == {"U+00E9"}

KeyOk(k) == [ok |-> TRUE, value |-> k]
UnexpectedEnd == [ok |-> FALSE, value |-> Key("UnexpectedEnd", "")]
InvalidCharacter(c) == [ok |-> FALSE, value |-> Key("InvalidCharacter", c)]

\* next!() for the i-th character when no arm takes it
KeyErr(text, i) ==
    IF i > Len(text) THEN UnexpectedEnd ELSE InvalidCharacter(text[i])

\* The i-th character, "" past the end
Ch(text, i) == IF i <= Len(text) THEN text[i] ELSE ""

\* consume_str!(str) from the i-th character on: 0 when all of str is
\* there, else the index of the character at which it fails
Mismatch(text, i, str) ==
    LET bad == {j \in 1..Len(str) : Ch(text, i + j - 1) # str[j]}
    IN  IF bad = {} THEN 0
        ELSE i - 1 + CHOOSE j \in bad : \A l \in bad : j <= l

\* consume_str!(str) and then the key k
consume_str(text, i, str, k) ==
    IF Mismatch(text, i, str) = 0 THEN KeyOk(k)
    ELSE KeyErr(text, Mismatch(text, i, str))

\* c.to_digit(10): 0..9, -1 for None
to_digit(c) ==
    IF \E d \in 1..10 : DigitChars[d] = c
    THEN (CHOOSE d \in 1..10 : DigitChars[d] = c) - 1
    ELSE -1

\* The arm 'f'
parse_f(text) ==
    CASE Ch(text, 3) = "1" /\ Ch(text, 4) = ">" -> KeyOk(Key("F", "1"))
      [] Ch(text, 3) = "1" /\ Ch(text, 4) \in {"0", "1", "2"} ->
            consume_str(text, 5, <<">">>, Key("F", "1" \o Ch(text, 4)))
      [] Ch(text, 3) = "1" -> KeyErr(text, 4)
      [] Ch(text, 3) = "" -> UnexpectedEnd
      [] Ch(text, 4) # ">" -> KeyErr(text, 4)
      [] to_digit(Ch(text, 3)) >= 0 ->
            KeyOk(Key("F", ToString(to_digit(Ch(text, 3)))))
      [] OTHER -> InvalidCharacter(Ch(text, 3))

\* The arms 'c' and 'a' when both give Ctrl
parse_ctrl(text, tag) ==
    IF Ch(text, 3) = "-" /\ Ch(text, 4) \in AsciiAlphanumeric /\ Ch(text, 5) = ">"
    THEN KeyOk(Key("Ctrl", Ch(text, 4)))
    ELSE UnexpectedEnd

\* The arms 'c' and 'a'
parse_modified(text, tag) ==
    IF Mismatch(text, 3, <<"-">>) # 0 THEN KeyErr(text, 3)
    ELSE IF Ch(text, 4) = "" THEN UnexpectedEnd
    ELSE IF Ch(text, 4) \notin AsciiAlphanumeric
    THEN InvalidCharacter(Ch(text, 4))
    ELSE consume_str(text, 5, <<">">>, Key(tag, Ch(text, 4)))

\* The arm '<'
parse_named(text) ==
    CASE Ch(text, 2) = "b" -> consume_str(text, 3, <<"a", "c", "k", "s", "p", "a", "c", "e", ">">>, Key("Backspace", ""))
      [] Ch(text, 2) = "s" -> consume_str(text, 3, <<"p", "a", "c", "e", ">">>, Key("Char", " "))
      [] Ch(text, 2) = "e" /\ Ch(text, 3) = "n" /\ Ch(text, 4) = "t" ->
            consume_str(text, 5, <<"e", "r", ">">>, Key("Enter", ""))
      [] Ch(text, 2) = "e" /\ Ch(text, 3) = "n" /\ Ch(text, 4) = "d" ->
            consume_str(text, 5, <<">">>, Key("End", ""))
      [] Ch(text, 2) = "e" /\ Ch(text, 3) = "n" -> KeyErr(text, 4)
      [] Ch(text, 2) = "e" /\ Ch(text, 3) = "s" ->
            consume_str(text, 4, <<"c", ">">>, Key("Esc", ""))
      [] Ch(text, 2) = "e" -> KeyErr(text, 3)
      [] Ch(text, 2) = "l" -> consume_str(text, 3, <<"e", "f", "t", ">">>, Key("Left", ""))
      [] Ch(text, 2) = "r" -> consume_str(text, 3, <<"i", "g", "h", "t", ">">>, Key("Right", ""))
      [] Ch(text, 2) = "u" -> consume_str(text, 3, <<"p", ">">>, Key("Up", ""))
      [] Ch(text, 2) = "d" /\ Ch(text, 3) = "o" ->
            consume_str(text, 4, <<"w", "n", ">">>, Key("Down", ""))
      [] Ch(text, 2) = "d" /\ Ch(text, 3) = "e" ->
            consume_str(text, 4, <<"l", "e", "t", "e", ">">>, Key("Delete", ""))
      [] Ch(text, 2) = "d" -> KeyErr(text, 3)
      [] Ch(text, 2) = "h" -> consume_str(text, 3, <<"o", "m", "e", ">">>, Key("Home", ""))
      [] Ch(text, 2) = "p" /\ Mismatch(text, 3, <<"a", "g", "e">>) # 0 ->
            KeyErr(text, Mismatch(text, 3, <<"a", "g", "e">>))
      [] Ch(text, 2) = "p" /\ Ch(text, 6) = "u" ->
            consume_str(text, 7, <<"p", ">">>, Key("PageUp", ""))
      [] Ch(text, 2) = "p" /\ Ch(text, 6) = "d" ->
            consume_str(text, 7, <<"o", "w", "n", ">">>, Key("PageDown", ""))
      [] Ch(text, 2) = "p" -> KeyErr(text, 6)
      [] Ch(text, 2) = "t" -> consume_str(text, 3, <<"a", "b", ">">>, Key("Tab", ""))
      [] Ch(text, 2) = "f" -> parse_f(text)
      [] Ch(text, 2) = "c" -> parse_modified(text, "Ctrl")
      [] Ch(text, 2) = "a" -> parse_modified(text, "Alt")
      [] OTHER -> KeyErr(text, 2)

\* Key::parse of the first key of a text
parse(text) ==
    CASE Ch(text, 1) = "" -> UnexpectedEnd
      [] Ch(text, 1) = "\\" ->
            IF Ch(text, 2) \in {"\\", "<"} THEN KeyOk(Key("Char", Ch(text, 2)))
            ELSE KeyErr(text, 2)
      [] Ch(text, 1) = "<" -> parse_named(text)
      [] OTHER ->
            IF Ch(text, 1) \notin NonAscii THEN KeyOk(Key("Char", Ch(text, 1)))
            ELSE InvalidCharacter(Ch(text, 1))

\* The name of a named key between < and >
KeyName(tag) ==
    CASE tag = "Backspace" -> <<"b", "a", "c", "k", "s", "p", "a", "c", "e">>
      [] tag = "Enter" -> <<"e", "n", "t", "e", "r">>
      [] tag = "Left" -> <<"l", "e", "f", "t">>
      [] tag = "Right" -> <<"r", "i", "g", "h", "t">>
      [] tag = "Up" -> <<"u", "p">>
      [] tag = "Down" -> <<"d", "o", "w", "n">>
      [] tag = "Home" -> <<"h", "o", "m", "e">>
      [] tag = "End" -> <<"e", "n", "d">>
      [] tag = "PageUp" -> <<"p", "a", "g", "e", "u", "p">>
      [] tag = "PageDown" -> <<"p", "a", "g", "e", "d", "o", "w", "n">>
      [] tag = "Tab" -> <<"t", "a", "b">>
      [] tag = "Delete" -> <<"d", "e", "l", "e", "t", "e">>
      [] tag = "Esc" -> <<"e", "s", "c">>

\* The decimal digits of n < 100
Digits(n) ==
    IF n < 10 THEN <<DigitChars[n + 1]>>
    ELSE <<DigitChars[(n \div 10) + 1], DigitChars[(n % 10) + 1]>>

\* The canonical textual form of a key
Display(k) ==
    CASE k.tag \in NamedKeys -> <<"<">> \o KeyName(k.tag) \o <<">">>
      [] k.tag = "F" ->
            <<"<", "f">> \o [i \in 1..Len(k.arg) |-> SubSeq(k.arg, i, i)]
            \o <<">">>
      [] k.tag = "Ctrl" -> <<"<", "c", "-", k.arg, ">">>
      [] k.tag = "Alt" -> <<"<", "a", "-", k.arg, ">">>
      [] k.tag = "Char" /\ k.arg = " " -> <<"<", "s", "p", "a", "c", "e", ">">>
      [] k.tag = "Char" /\ k.arg \in {"\\", "<"} -> <<"\\", k.arg>>
      [] OTHER -> <<k.arg>>

\* The printable ASCII characters that are enumerated
PrintableChars ==
    {"a", "z", "A", "Z", "0", "9", "_", "-", ">", "<", "\\", " ",
     "b", "s", "e", "c", "f"}

MaxFunctionKey == 20

\* The keys with a canonical textual form
Keys ==
    {Key(tag, "") : tag \in NamedKeys}
    \cup {Key("F", ToString(n)) : n \in 1..12}
    \cup {Key("Char", c) : c \in PrintableChars}
    \cup {Key("Ctrl", c) : c \in AsciiAlphanumeric}
    \cup {Key("Alt", c) : c \in AsciiAlphanumeric}

\* <fN> for the numbers up to MaxFunctionKey, and texts that are not the
\* form of a key
KeyTexts ==
    {Display(k) : k \in Keys}
    \cup {<<"<", "f">> \o Digits(n) \o <<">">> : n \in 0..MaxFunctionKey}
    \cup {<<>>, <<"<">>, <<"<", "f">>, <<"<", "f", ">">>, <<"<", "f", "1">>,
          <<"<", "f", "a", ">">>, <<"<", "f", "0", "1", ">">>,
          <<"<", "f", "1", "0", "0", ">">>, <<"<", "f", "2">>,
          <<"<", "c", "-", "_", ">">>, <<"<", "a", "-", "U+00E9", ">">>,
          <<"<", "c", "-", "a">>, <<"<", "c", "a", ">">>, <<"U+00E9">>,
          <<"\\">>, <<"\\", "a">>, <<"<", "e", "n", "d", "x", ">">>, <<"<", "p", "a", "g", "e", "x", ">">>, <<"<", "x", ">">>, <<"<", "b", "a", "c", "k", "s", "p", "a", "c", ">">>}

NotParsed == [ok |-> FALSE, value |-> Key("None", "")]

----------------------------------------------------------------------------
\* Cursor and CursorCollection.  A BufferPosition is a number: only the
\* order of the positions is used.

MaxPosition == 3
MaxCursors == 3

Cursor(anchor, position) == [anchor |-> anchor, position |-> position]

\* BufferRange::between(anchor, position)
CursorRange(c) ==
    [from |-> IF c.anchor <= c.position THEN c.anchor ELSE c.position,
     to |-> IF c.anchor <= c.position THEN c.position ELSE c.anchor]

\* BufferRange::contains
Contains(r, p) == r.from <= p /\ p <= r.to

\* Vec::remove(j), j counted from 0
RemoveAt(s, j) == SubSeq(s, 1, j) \o SubSeq(s, j + 2, Len(s))

RECURSIVE InsertByFrom(_, _)
\* c put into the sorted s after the cursors that do not start later
InsertByFrom(s, c) ==
    IF s = <<>> THEN <<c>>
    ELSE IF CursorRange(s[1]).from <= CursorRange(c).from
    THEN <<s[1]>> \o InsertByFrom(Tail(s), c)
    ELSE <<c>> \o s

RECURSIVE sort_by_key(_)
\* cursors.sort_by_key(|c| c.range().from): a stable sort
sort_by_key(s) ==
    IF s = <<>> THEN <<>>
    ELSE InsertByFrom(sort_by_key(Front(s)), Last(s))

\* What binary_search_by(|c| c.position.cmp(&p)).unwrap_or(0) may give: an
\* index of a cursor at p; the search may miss it when the cursors are not
\* in the order of their positions, and then it is 0
binary_search(s, p) ==
    {i \in 0..(Len(s) - 1) : s[i + 1].position = p}
    \cup (IF \A i \in 1..(Len(s) - 1) : s[i].position <= s[i + 1].position
          THEN {} ELSE {0})

RECURSIVE merge_others(_, _, _, _, _)
\* for j in ((i + 1)..len).rev(): i and j are counted from 0
merge_others(cs, r, j, i, main) ==
    IF j <= i THEN [cursors |-> cs, range |-> r, main |-> main]
    ELSE IF Contains(r, CursorRange(cs[j + 1]).from)
    THEN merge_others(RemoveAt(cs, j),
                      [r EXCEPT !.to = IF @ < CursorRange(cs[j + 1]).to
                                       THEN CursorRange(cs[j + 1]).to
                                       ELSE @],
                      j - 1, i,
                      IF j <= main THEN main - 1 ELSE main)
    ELSE merge_others(cs, r, j - 1, i, main)

\* cursors[i] = the range with the direction of cursors[i]
with_range(m, i) ==
    [m EXCEPT !.cursors[i + 1] =
        IF @.anchor <= @.position
        THEN Cursor(m.range.from, m.range.to)
        ELSE Cursor(m.range.to, m.range.from)]

RECURSIVE merge_from(_, _)
\* while i < self.cursors.len(): m holds cursors and main
merge_from(m, i) ==
    IF i >= Len(m.cursors) THEN m
    ELSE merge_from(with_range(merge_others(m.cursors,
                                            CursorRange(m.cursors[i + 1]),
                                            Len(m.cursors) - 1, i, m.main),
                               i),
                    i + 1)

\* sort_and_merge of the cursors cs when the binary search gives found
sort_and_merge(cs, found) ==
    merge_from([cursors |-> sort_by_key(cs), range |-> CursorRange(cs[1]),
                main |-> found], 0)

SortedAndMerged(cs, main) ==
    \E found \in binary_search(sort_by_key(cs), cs[main + 1].position) :
        /\ cursors' = sort_and_merge(cs, found).cursors
        /\ main_cursor_index' = sort_and_merge(cs, found).main

Positions == 0..MaxPosition

Cursors == {Cursor(a, p) : a \in Positions, p \in Positions}

\* CursorCollection::add_cursor
AddCursor(c) ==
    /\ Len(cursors) < MaxCursors
    /\ SortedAndMerged(Append(cursors, c), Len(cursors))

\* CursorCollection::change_all with a callback that leaves cs in the slice
ChangeAll(cs) ==
    /\ Len(cs) = Len(cursors)
    /\ SortedAndMerged(cs, main_cursor_index)

\* A CursorCollectionMut through which cs was written is dropped
DropCursorCollectionMut(cs) ==
    /\ Len(cs) = Len(cursors)
    /\ SortedAndMerged(cs, main_cursor_index)

\* CursorCollection::new
CursorCollectionNew ==
    /\ cursors = <<Cursor(0, 0)>>
    /\ main_cursor_index = 0

LibIdle == chars = <<>> /\ parsed = NotParsed /\ CursorCollectionNew

----------------------------------------------------------------------------
\* CommandTokenizer.  A source is a sequence of bytes; index, range and
\* position count from 0.

MaxSource == 3

\* b' ' | b'\t' | b'\r'
Whitespace == {" ", "\t", "\r"}

\* The bytes that end a literal
LiteralEnds == {"{", "}", "(", ")", "\n"} \cup Whitespace

\* CommandTokenizer::new
CommandTokenizerNew(bytes) ==
    [source |-> bytes, index |-> 0,
     position |-> [line_index |-> 0, column_byte_index |-> 0]]

AtEnd(t) == t.index >= Len(t.source)

\* source_bytes[self.index]
Current(t) == t.source[t.index + 1]

\* index += n; position.column_byte_index += n
Advance(t, n) ==
    [t EXCEPT !.index = @ + n,
              !.position.column_byte_index = @ + n]

\* index += 1; position.line_index += 1; position.column_byte_index = 0
NewLine(t) ==
    [t EXCEPT !.index = @ + 1,
              !.position = [line_index |-> @.line_index + 1,
                            column_byte_index |-> 0]]

\* Ok(CommandToken) of the bytes between the tokenizers from and to
Ok(token_kind, from, to) ==
    [iter |-> to,
     token |-> [ok |-> TRUE, kind |-> token_kind,
                range |-> [start |-> from.index, end |-> to.index],
                position |-> from.position]]

\* Err(CommandError) at the position of the tokenizer from
Err(error_kind, from, to) ==
    [iter |-> to,
     token |-> [ok |-> FALSE, kind |-> error_kind,
                position |-> from.position]]

RECURSIVE consume_identifier(_)
consume_identifier(t) ==
    IF ~AtEnd(t) /\ Current(t) \in IdentifierBytes
    THEN consume_identifier(Advance(t, 1))
    ELSE t

\* A token of two bytes where the code takes one
two_byte_token(t, token_kind) == Ok(token_kind, t, Advance(t, 2))

single_byte_token(t, token_kind) == Ok(token_kind, t, Advance(t, 1))

\* The newline arm when it takes one newline only
one_end_of_line(t) == NewLine(t)

RECURSIVE end_of_line(_)
\* The loop of the arm b'\n', from the first newline
end_of_line(t) ==
    IF AtEnd(t) THEN t
    ELSE IF Current(t) \in Whitespace THEN end_of_line(Advance(t, 1))
    ELSE IF Current(t) = "\n" THEN end_of_line(NewLine(t))
    ELSE t

RECURSIVE quoted_literal(_, _, _)
\* The loop of the arm of the delimiters, from the byte after the delimiter
\* at which the tokenizer was from
quoted_literal(t, delim, from) ==
    IF AtEnd(t) THEN Err("UnterminatedQuotedLiteral", from, t)
    ELSE IF Current(t) = "\\" THEN quoted_literal(Advance(t, 2), delim, from)
    ELSE IF Current(t) = "\n" THEN quoted_literal(NewLine(t), delim, from)
    ELSE IF Current(t) = delim THEN Ok("QuotedLiteral", from, Advance(t, 1))
    ELSE quoted_literal(Advance(t, 1), delim, from)

\* The arms b'-' and b'$': to is the tokenizer after consume_identifier
prefixed(token_kind, error_kind, from, to) ==
    IF from.index + 1 = to.index
    THEN Err(error_kind, from, to)
    ELSE Ok(token_kind, from, to)

RECURSIVE literal(_)
\* The loop of the last arm
literal(t) ==
    IF AtEnd(t) \/ Current(t) \in LiteralEnds THEN t
    ELSE literal(Advance(t, 1))

RECURSIVE next(_)
\* CommandTokenizer::next: the tokenizer after the call and what it returns
next(t) ==
    IF AtEnd(t)
    THEN [iter |-> t,
          token |-> [ok |-> TRUE, kind |-> "EndOfSource",
                     range |-> [start |-> Len(t.source),
                                end |-> Len(t.source)],
                     position |-> t.position]]
    ELSE CASE Current(t) \in Whitespace -> next(Advance(t, 1))
           [] Current(t) = "\n" -> Ok("EndOfLine", t, end_of_line(t))
           [] Current(t) \in {"\"", "'"} ->
                quoted_literal(Advance(t, 1), Current(t), t)
           [] Current(t) = "-" ->
                prefixed("Flag", "InvalidFlagName", t,
                         consume_identifier(Advance(t, 1)))
           [] Current(t) = "$" ->
                prefixed("Binding", "InvalidBindingName", t,
                         consume_identifier(Advance(t, 1)))
           [] Current(t) = "=" -> single_byte_token(t, "Equals")
           [] Current(t) = "{" -> single_byte_token(t, "OpenCurlyBrackets")
           [] Current(t) = "}" -> single_byte_token(t, "CloseCurlyBrackets")
           [] Current(t) = "(" -> single_byte_token(t, "OpenParenthesis")
           [] Current(t) = ")" -> single_byte_token(t, "CloseParenthesis")
           [] OTHER -> Ok("Literal", t, literal(Advance(t, 1)))

\* The bytes of the sources that are enumerated
SourceBytes == {"c", "-", "$", "=", " ", "\n", "\"", "\\", "("}

\* The sources of tests::command_tokenizer
TestSources ==
    {<<>>, <<" ", " ">>, <<"'", "c", "'">>,
     <<"c", "m", "d", " ", "(", "c", "m", "d", ")">>,
     <<"c", "m", "d", " ", "$", "c", "m", "d", "_", "c", "m", "d", " ",
       "-", "c", "m", "d", "0", "=", "c", "m", "d", "1", "2", " ", "=", " ",
       "c", "m", "d", "-", "c", "m", "d", "0">>,
     <<"c", "m", "d", "0", " ", "c", "m", "d", "1", " ", "\t", "\r", "\n",
       "\n", " ", "\t", " ", "\n", " ", " ", "c", "m", "d", "2">>}

\* Quoted literals with a newline and with a newline after a backslash,
\* each followed by a token
QuotedSources ==
    {<<"\"", "c", "\n", "c", "\"", " ", "c">>,
     <<"'", "\\", "\n", "'", " ", "c">>,
     <<"\"", "\\", "\"", "\n", "\"", "=">>}

Sources ==
    UNION {[1..n -> SourceBytes] : n \in 0..MaxSource}
    \cup TestSources \cup QuotedSources

\* A call of next by the parser, which stops at an error and calls again
\* after EndOfSource
TokenizerNext ==
    /\ tokens # <<>> => Last(tokens).ok
    /\ Len(tokens) >= 2 =>
           ~(/\ tokens[Len(tokens)].kind = "EndOfSource"
             /\ tokens[Len(tokens) - 1].kind = "EndOfSource")
    /\ tokenizer' = next(tokenizer).iter
    /\ tokens' = Append(tokens, next(tokenizer).token)
    /\ UNCHANGED <<vmVars, modeVars, libVars>>

TokenizerIdle ==
    /\ tokenizer = CommandTokenizerNew(<<>>)
    /\ tokens = <<>>

Init == VMInit /\ ModeInit /\ TokenizerIdle /\ LibIdle

\* A tokenizer made for one of the sources
TokenizerInit ==
    /\ VMInit
    /\ ModeInit
    /\ \E bytes \in Sources : tokenizer = CommandTokenizerNew(bytes)
    /\ tokens = <<>>
    /\ LibIdle

Next ==
    \/ \E id \in SourceIds : Eval(id) /\ UNCHANGED <<modeVars, tkVars, libVars>>
    \/ ExecReturn /\ UNCHANGED <<modeVars, tkVars, libVars>>
    \/ ExecPop /\ UNCHANGED <<modeVars, tkVars, libVars>>
    \/ ExecPushStringLiteral /\ UNCHANGED <<modeVars, tkVars, libVars>>
    \/ ExecDuplicateAt /\ UNCHANGED <<modeVars, tkVars, libVars>>
    \/ ExecPrepareStackFrame /\ UNCHANGED <<modeVars, tkVars, libVars>>
    \/ ExecCallBuiltinCommand /\ UNCHANGED <<modeVars, tkVars, libVars>>
    \/ ExecCallMacroCommand /\ UNCHANGED <<modeVars, tkVars, libVars>>
    \/ EvalFinish /\ UNCHANGED <<modeVars, tkVars, libVars>>

Spec == Init /\ [][Next]_vars

\* One iteration of the loop of execute
ExecuteStep ==
    /\ \/ ExecReturn
       \/ ExecPop
       \/ ExecPushStringLiteral
       \/ ExecDuplicateAt
       \/ ExecPrepareStackFrame
       \/ ExecCallBuiltinCommand
       \/ ExecCallMacroCommand
    /\ UNCHANGED <<modeVars, tkVars, libVars>>

\* Spec with an execute that goes on while it can: execute is a loop that
\* yields to nothing, and the builtins of the tests return
LiveSpec == Spec /\ WF_vars(ExecuteStep)

\* The evals of Spec with builtins whose function may return Err
FailNext ==
    \/ Next
    \/ ExecCallBuiltinCommandErr /\ UNCHANGED <<modeVars, tkVars, libVars>>

FailSpec == Init /\ [][FailNext]_vars

ModeNext ==
    \/ \E next_kind \in ModeKinds :
          ChangeTo(next_kind) /\ UNCHANGED <<vmVars, tkVars, libVars>>
    \/ \E c \in InputChars : KeyChar(c) /\ UNCHANGED <<vmVars, tkVars, libVars>>
    \/ KeyBackspace /\ UNCHANGED <<vmVars, tkVars, libVars>>
    \/ KeyCtrlW /\ UNCHANGED <<vmVars, tkVars, libVars>>
    \/ \E clipboard \in Clipboards : KeyCtrlY(clipboard) /\ UNCHANGED <<vmVars, tkVars, libVars>>
    \/ KeyEsc /\ UNCHANGED <<vmVars, tkVars, libVars>>
    \/ \E effect \in EvalEffects : KeyEnter(effect) /\ UNCHANGED <<vmVars, tkVars, libVars>>

\* Keys and mode changes, nothing evaluated by the virtual machine
ModeSpec == Init /\ [][ModeNext]_vars

HistoryNext ==
    \/ \E e \in HistoryEntries(history) : AddToHistory(e) /\ UNCHANGED <<vmVars, tkVars, libVars>>
    \/ ChangeTo("Command") /\ UNCHANGED <<vmVars, tkVars, libVars>>
    \/ KeyCtrlN /\ UNCHANGED <<vmVars, tkVars, libVars>>
    \/ KeyCtrlP /\ UNCHANGED <<vmVars, tkVars, libVars>>

\* The history: entries added, and the keys that navigate it
HistorySpec == Init /\ [][HistoryNext]_vars

\* The bytes of the quoted literals that are enumerated: the bytes that may
\* follow a backslash, the letters that name them, and another letter
LiteralBytes ==
    {"\\", "'", "\"", "\n", "\r", "\t", "NUL", "n", "r", "t", "0", "c"}

MaxLiteral == 3

\* A single-quoted literal around each text of up to MaxLiteral bytes
LiteralSources ==
    {<<"'">> \o text \o <<"'">> :
        text \in UNION {[1..n -> LiteralBytes] : n \in 0..MaxLiteral}}

LiteralInit ==
    /\ VMInit
    /\ ModeInit
    /\ \E bytes \in LiteralSources : tokenizer = CommandTokenizerNew(bytes)
    /\ tokens = <<>>
    /\ LibIdle

\* What the compiler c leaves in the arrays of the virtual machine
Pushed(c) ==
    /\ texts' = c.texts
    /\ ops' = c.ops
    /\ op_locations' = c.locs
    /\ result' = IF c.err = "" THEN "Ok" ELSE c.err

\* emit_push_literal_from_previous_token when previous_token is the token
\* that next returned last
PushLiteral ==
    /\ phase = "idle"
    /\ result = "None"
    /\ tokens # <<>>
    /\ Last(tokens).ok
    /\ Last(tokens).kind \in {"Literal", "QuotedLiteral"}
    /\ Pushed(emit_push_literal_from_previous_token(
                 NewCompiler(<<[kind |-> Last(tokens).kind,
                                text |-> SubSeq(tokenizer.source,
                                                Last(tokens).range.start + 1,
                                                Last(tokens).range.end)]>>,
                             ops, op_locations, texts, macro_commands)))
    /\ UNCHANGED <<value_stack, frames, prepared_frames, macro_commands,
                   phase, op_index, start_stack_index, initial_texts_len,
                   definitions_len, source, output, evals>>
    /\ UNCHANGED <<modeVars, tkVars, libVars>>

LiteralNext ==
    \/ TokenizerNext
    \/ PushLiteral

\* A literal is tokenized and pushed to the text arena
LiteralSpec == LiteralInit /\ [][LiteralNext]_vars

\* The number of literals of the longest source: with U8_MAX bytes each,
\* the last begins past U16_RANGE
MaxLiterals == 259

\* The literal arguments of a source, the n-th of them (0-based): each is
\* U8_MAX bytes long, and each differs from the one before it
ArenaLiteral(n) ==
    [kind |-> "Literal",
     text |-> [i \in 1..U8_MAX |-> IF n % 2 = 0 THEN "q" ELSE "x"]]

RECURSIVE PushLiterals(_, _, _)
\* The literals lo..hi are pushed by the compiler c unless it failed (the `?`
\* of the caller)
PushMoreLiterals(c, lo, hi) ==
    IF c.err # "" THEN c ELSE PushLiterals(c, lo, hi)

\* emit_push_literal_from_previous_token for each of the literals lo..hi of
\* the source in turn, as the compiler calls it for argument after argument
PushLiterals(c, lo, hi) ==
    IF lo > hi THEN c
    ELSE IF lo = hi
    THEN emit_push_literal_from_previous_token(
            [c EXCEPT !.toks = <<ArenaLiteral(lo)>>, !.pos = 1])
    ELSE PushMoreLiterals(PushLiterals(c, lo, (lo + hi) \div 2),
                          ((lo + hi) \div 2) + 1, hi)

\* The literals of a source of n literals are compiled
CompileLiterals(n) ==
    /\ phase = "idle"
    /\ result = "None"
    /\ Pushed(PushLiterals(NewCompiler(<<>>, ops, op_locations, texts,
                                       macro_commands), 0, n - 1))
    /\ UNCHANGED <<value_stack, frames, prepared_frames, macro_commands,
                   phase, op_index, start_stack_index, initial_texts_len,
                   definitions_len, source, output, evals>>
    /\ UNCHANGED <<modeVars, tkVars, libVars>>

ArenaNext == \E n \in 1..MaxLiterals : CompileLiterals(n)

\* Sources of literal after literal are compiled into the text arena
ArenaSpec == Init /\ [][ArenaNext]_vars

KeyInit ==
    /\ VMInit
    /\ ModeInit
    /\ TokenizerIdle
    /\ chars \in KeyTexts
    /\ parsed = NotParsed
    /\ CursorCollectionNew

\* Key::parse is called with the text
ParseKey ==
    /\ parsed = NotParsed
    /\ parsed' = parse(chars)
    /\ UNCHANGED <<chars, cursors, main_cursor_index, vmVars, modeVars,
                   tkVars>>

\* A text is parsed as a key
KeySpec == KeyInit /\ [][ParseKey]_vars

CursorNext ==
    \/ \E c \in Cursors :
          AddCursor(c) /\ UNCHANGED <<chars, parsed, vmVars, modeVars, tkVars>>
    \/ \E cs \in [1..Len(cursors) -> Cursors] :
          ChangeAll(cs) /\ UNCHANGED <<chars, parsed, vmVars, modeVars, tkVars>>
    \/ \E cs \in [1..Len(cursors) -> Cursors] :
          /\ DropCursorCollectionMut(cs)
          /\ UNCHANGED <<chars, parsed, vmVars, modeVars, tkVars>>

\* Cursors are added and changed
CursorSpec == Init /\ [][CursorNext]_vars

\* The tokens of a source, one call of next after the other
TokenizerSpec == TokenizerInit /\ [][TokenizerNext]_vars

----------------------------------------------------------------------------
\* Properties of eval, execute and compile

Idle == phase = "idle"
Succeeded == phase = "idle" /\ result = "Ok"

C2_ReturnKeepsText ==
    [][(/\ Executing("Return")
        /\ frames # <<>>
        /\ value_stack # <<>>
        /\ ValueOk(Last(value_stack), texts)
        /\ phase' = "exec")
       => LET frame == Last(frames)
              value == Last(value_stack)
          IN  /\ Len(value_stack') = frame.stack_len + 1
              /\ Len(texts') <= frame.texts_len + (value.end - value.start)
              /\ ValueOk(Last(value_stack'), texts')
              /\ ValueText(Last(value_stack'), texts')
                    = ValueText(value, texts)]_vars

InMacroBody(toks, i) ==
    \E j \in 1..(i - 1) :
        /\ toks[j].kind = "OpenCurlyBrackets"
        /\ \A k \in (j + 1)..(i - 1) : toks[k].kind # "CloseCurlyBrackets"

\* The source has a return statement at its top level
HasTopLevelReturn(toks) ==
    \E i \in 1..Len(toks) : toks[i] = Lit(n_return) /\ ~InMacroBody(toks, i)

\* The errors compile returns
CompileErrors ==
    {"ExpectedToken", "ExpectedMacroDefinition", "ExpectedStatement",
     "ExpectedExpression", "InvalidMacroName", "InvalidLiteralEscaping",
     "LiteralTooLong", "TooManyBindings", "UndeclaredBinding",
     "NoSuchCommand", "NoSuchFlag", "WrongNumberOfArgs",
     "CommandAlreadyExists"}

C5_BangRefused ==
    (/\ Idle
     /\ source.fam = "call"
     /\ source.b = 1
     /\ ~BUILTIN_COMMANDS[source.a + 1].accepts_bang)
    => result = "CommandDoesNotAcceptBang"

\* C6: ops and op_locations have the same length, after every compile and
\* every eval, successful or failed.
C6_OneLocationPerOp == Len(ops) = Len(op_locations)

\* A failed compile after a successful eval that left definitions
C6_Witness ==
    /\ Idle
    /\ evals = 2
    /\ result = "CommandAlreadyExists"
    /\ ops # <<>>

\* The token at index i belongs to a macro definition: it stands after the
\* keyword macro, up to the closing bracket of the body
InMacroDefinition(toks, i) ==
    /\ i <= Len(toks)
    /\ \E j \in 1..(i - 1) :
        /\ toks[j] = Lit(n_macro)
        /\ \A k \in j..(i - 1) : toks[k].kind # "CloseCurlyBrackets"

\* The index of the last op of the body of the i-th macro
MacroBodyEnd(i) ==
    IF i < Len(macro_commands) THEN macro_commands[i + 1].op_start_index
    ELSE definitions_len.ops

\* The number of macro definitions in a source: a source that compiles
\* registered that many macros, the last ones of macro_commands
MacrosDefined(toks) ==
    Cardinality({k \in 1..Len(toks) :
                    toks[k].kind = "Literal" /\ toks[k].text = n_macro})

FlagPlaceholders(k) == [i \in 1..k |-> OpPushStringLiteral(0, 0)]

\* ops[from + 1 .. from + n] push the first n argument texts, in order
PushesArguments(from, n) ==
    \A j \in 1..n :
        /\ ops[from + j].op = "PushStringLiteral"
        /\ ops[from + j].len = Len(ArgTexts[j])
        /\ SliceOk(texts, ops[from + j].start,
                   ops[from + j].start + ops[from + j].len)
        /\ Slice(texts, ops[from + j].start,
                 ops[from + j].start + ops[from + j].len) = ArgTexts[j]

----------------------------------------------------------------------------
\* Properties of Mode::change_to and of the Command mode

\* The i-th call of change_to in hooks, and the hooks it ran
ChangeCall(i) == hooks[3 * i - 2]
ChangeExit(i) == hooks[3 * i - 1]
ChangeEnter(i) == hooks[3 * i]

\* C9: change_to(next) calls on_exit of the mode that was active, stores
\* next as the active kind, then calls on_enter of next, each once and in
\* that order, also when next is the mode that was active; on_enter sees
\* kind = next.
C9_ChangeToHooks ==
    /\ Len(hooks) % 3 = 0
    /\ \A i \in 1..(Len(hooks) \div 3) :
        /\ ChangeCall(i).hook = "change_to"
        /\ ChangeExit(i).hook = "on_exit"
        /\ ChangeExit(i).mode = ChangeCall(i).kind
        /\ ChangeExit(i).kind = ChangeCall(i).kind
        /\ ChangeEnter(i).hook = "on_enter"
        /\ ChangeEnter(i).mode = ChangeCall(i).mode
        /\ ChangeEnter(i).kind = ChangeCall(i).mode
    /\ hooks # <<>> => kind = Last(hooks).mode

\* Two calls happened: one to another mode, one to the mode that was active
C9_Witness ==
    /\ Len(hooks) = 6
    /\ ChangeCall(1).mode # ChangeCall(1).kind
    /\ ChangeCall(2).mode = ChangeCall(2).kind
    /\ ChangeCall(2).mode = "Command"

\* The errors of eval_command other than Aborted
OtherErrors == {"ErrNoSuchCommand", "ErrTooManyArguments"}

\* C10: on Submitted, Ok(None) and Err(Aborted) give no ModeOperation and
\* leave the status bar as eval_command left it, Ok(Some(Quit)) gives Quit,
\* Ok(Some(QuitAll)) gives QuitAll, any other error gives no ModeOperation
\* and writes its display string to the status bar with kind Error.
C10_SubmittedOperation ==
    mode_pc = "submitted" =>
        /\ eval_outcome.res \in {"OkNone", "ErrAborted"} =>
            /\ mode_op = "None"
            /\ status_bar = eval_outcome.status_bar
        /\ eval_outcome.res = "OkQuit" => mode_op = "Quit"
        /\ eval_outcome.res = "OkQuitAll" => mode_op = "QuitAll"
        /\ eval_outcome.res \in OtherErrors =>
            /\ mode_op = "None"
            /\ status_bar = StatusBarWrite("Error",
                                           ErrorDisplay(eval_outcome.res))

\* A command was aborted after it wrote to the status bar
C10_Witness ==
    /\ mode_pc = "submitted"
    /\ eval_outcome.res = "ErrAborted"
    /\ mode_op = "None"
    /\ status_bar = StatusBarWrite("Info", <<"output">>)

\* C11: after a Canceled poll the active mode is the default mode, Normal;
\* after a Submitted input was evaluated, whatever the outcome, the active
\* mode is not Command.
C11_CommandModeIsLeft ==
    /\ mode_pc = "canceled" => kind = DefaultModeKind /\ kind = "Normal"
    /\ mode_pc = "submitted" => kind # "Command"

\* The evaluated command entered the Command mode again, and Submitted
\* left it for the default mode
C11_Witness ==
    /\ mode_pc = "submitted"
    /\ Len(hooks) = 9
    /\ ChangeCall(2).kind = "Command"
    /\ ChangeCall(2).mode = "Command"
    /\ ChangeCall(3).mode = DefaultModeKind
    /\ kind = "Normal"

\* C12: a Submitted input longer than 256 bytes is rejected: eval_command
\* is not called, the status bar holds an Error message and no ModeOperation
\* is returned; an input of exactly 256 bytes is evaluated.
C12_TooLongIsRejected ==
    [][(key' = "Enter" /\ steps' = steps + 1) =>
        /\ Len(read_line.input) > 256 =>
            /\ eval_outcome' = eval_outcome
            /\ status_bar'.kind = "Error"
            /\ status_bar'.message # <<>>
            /\ mode_op' = "None"
        /\ Len(read_line.input) = 256 =>
            /\ eval_outcome'.calls = eval_outcome.calls + 1
            /\ mode_pc' = "submitted"]_vars

\* An input of 257 bytes was submitted
C12_Witness ==
    /\ mode_pc = "too_long"
    /\ Len(read_line.input) = 257
    /\ eval_outcome = NoOutcome
    /\ mode_op = "None"
    /\ status_bar = StatusBarWrite("Error", TooLongMessage(257))

\* C13: entering Command mode sets the read-line prompt to ":", empties the
\* read-line input and sets the picker state to
\* NavigatingHistory(history_len); exiting Command mode empties the
\* read-line input.
C13_CommandEnterAndExit ==
    [][/\ (Len(hooks') > Len(hooks) /\ kind' = "Command") =>
            /\ read_line' = [prompt |-> <<":">>, input |-> <<>>]
            /\ picker_state' = NavigatingHistory(Len(history'))
       /\ (Len(hooks') > Len(hooks) /\ kind = "Command") =>
            read_line'.input = <<>>]_vars

\* Command mode was entered, q was typed and submitted, and the mode was
\* left
C13_Witness ==
    /\ mode_pc = "submitted"
    /\ kind = "Normal"
    /\ Len(hooks) = 6
    /\ history = <<(<<"q">>)>>
    /\ read_line = [prompt |-> <<":">>, input |-> <<>>]
    /\ picker_state = NavigatingHistory(0)

----------------------------------------------------------------------------
\* Properties of the command history

\* C14: in history navigation Ctrl-n or Ctrl-j sets the index to
\* min(index + 1, history_len - 1), 0 when the history is empty, Ctrl-p or
\* Ctrl-k sets it to max(index - 1, 0), and after either key the read-line
\* input is the entry of the history at the index ("" when there is none).
C14_HistoryNavigation ==
    [][(steps' = steps + 1 /\ picker_state.state = "NavigatingHistory") =>
        LET i == picker_state.index
            n == Len(history)
            down == IF n = 0 THEN 0 ELSE IF i + 1 < n - 1 THEN i + 1 ELSE n - 1
            up == IF i - 1 > 0 THEN i - 1 ELSE 0
            shown(j) == IF j < n THEN history[j + 1] ELSE <<>>
        IN  /\ key' \in {"Ctrl-n", "Ctrl-j"} =>
                /\ picker_state' = NavigatingHistory(down)
                /\ read_line'.input = shown(down)
            /\ key' \in {"Ctrl-p", "Ctrl-k"} =>
                /\ picker_state' = NavigatingHistory(up)
                /\ read_line'.input = shown(up)]_vars

\* With three entries stored, Ctrl-p then Ctrl-n: the index is held at the
\* newest entry
C14_Witness ==
    /\ key \in {"Ctrl-n", "Ctrl-j"}
    /\ steps = 3
    /\ Len(history) = 3
    /\ picker_state = NavigatingHistory(2)
    /\ read_line.input = history[3]

\* The entry is one add_to_history does not store in h
Refused(e, h) ==
    \/ e = <<>>
    \/ e # <<>> /\ e[1] \in {" ", "\t", "\n", "\f", "\r"}
    \/ h # <<>> /\ e = h[Len(h)]

\* C15: add_to_history(entry) leaves the history unchanged when entry is
\* empty, starts with an ASCII whitespace character, or equals the entry
\* added most recently.
C15_RefusedEntries ==
    [][(mode_pc' = "added" /\ Refused(added_entry', history)) =>
        history' = history]_vars

\* An entry that starts with a space was given after two entries were
\* stored
C15_Witness ==
    /\ mode_pc = "added"
    /\ added_entry = <<" ", "a">>
    /\ history = <<(<<"a">>), (<<"b">>)>>

\* C16: the history holds at most 10 entries; adding an accepted entry when
\* 10 are stored removes the oldest, appends the new one as the newest and
\* keeps the other nine in their order.
C16_HistoryHoldsTen ==
    [][/\ Len(history') <= 10
       /\ (/\ mode_pc' = "added"
           /\ ~Refused(added_entry', history)
           /\ Len(history) = 10) =>
            history' = Tail(history) \o <<added_entry'>>]_vars

----------------------------------------------------------------------------
\* Properties of ReadLine::poll

\* C17: Backspace or Ctrl-h with a non-empty input removes exactly the last
\* Unicode scalar value of the input, with an empty input changes nothing,
\* and returns Pending in both cases.
C17_BackspaceRemovesOneScalar ==
    [][(steps' = steps + 1 /\ key' \in {"Backspace", "Ctrl-h"}) =>
        /\ mode_pc' = "pending"
        /\ read_line.input = <<>> => read_line'.input = <<>>
        /\ read_line.input # <<>> =>
            \E c \in InputChars :
                read_line.input = read_line'.input \o Utf8(c)]_vars

\* q and a character of two bytes were pasted, Backspace left q
C17_Witness ==
    /\ key \in {"Backspace", "Ctrl-h"}
    /\ steps = 3
    /\ read_line.input = <<"q">>

\* C18: Ctrl-w removes the trailing identifier run: when the input has an
\* identifier word, the new input is the prefix of the old input that ends
\* where the last identifier word of the old input begins, and poll returns
\* Pending.
C18_CtrlWRemovesTrailingIdentifier ==
    [][(steps' = steps + 1 /\ key' = "Ctrl-w") =>
        /\ mode_pc' = "pending"
        /\ (\E i \in 1..Len(read_line.input) :
                WordKind(read_line.input[i]) = "Identifier") =>
            LET old == read_line.input
                cut == Len(read_line'.input)
            IN  /\ cut < Len(old)
                /\ read_line'.input = SubSeq(old, 1, cut)
                /\ WordKind(old[cut + 1]) = "Identifier"
                /\ cut > 0 => WordKind(old[cut]) # "Identifier"
                /\ \A j \in (cut + 2)..Len(old) :
                      WordKind(old[j]) = "Identifier" =>
                          WordKind(old[j - 1]) = "Identifier"]_vars

\* "q-q " was pasted and Ctrl-w removed the second q and the space after it
C18_Witness ==
    /\ key = "Ctrl-w"
    /\ steps = 3
    /\ read_line.input = <<"q", "-">>

----------------------------------------------------------------------------
\* Properties of CommandTokenizer

\* The position of byte n (0-based) of a source: the newlines before it and
\* the bytes since the last of them
PositionOf(bytes, n) ==
    LET newlines == {j \in 1..n : bytes[j] = "\n"}
        line_start == IF newlines = {} THEN 0
                      ELSE CHOOSE j \in newlines : \A l \in newlines : l <= j
    IN  [line_index |-> Cardinality(newlines),
         column_byte_index |-> n - line_start]

\* C19: every token returned by next carries as position the zero-based line
\* and byte column of its first byte in the source, also a token that
\* follows a quoted literal containing newlines.
C19_TokenPositions ==
    \A i \in 1..Len(tokens) :
        tokens[i].ok =>
            tokens[i].position
              = PositionOf(tokenizer.source, tokens[i].range.start)

\* C20: a run of newlines interspersed with spaces, tabs and CRs yields
\* exactly one EndOfLine token, whose range starts at the first newline and
\* covers the rest of the run; no two EndOfLine tokens are returned in a row.
C20_OneEndOfLinePerRun ==
    LET bytes == tokenizer.source
        run == Whitespace \cup {"\n"}
    IN  /\ \A i \in 1..Len(tokens) :
            (tokens[i].ok /\ tokens[i].kind = "EndOfLine") =>
                /\ bytes[tokens[i].range.start + 1] = "\n"
                /\ tokens[i].range.end <= Len(bytes)
                /\ \A j \in (tokens[i].range.start + 1)..tokens[i].range.end :
                      bytes[j] \in run
                /\ tokens[i].range.end < Len(bytes) =>
                      bytes[tokens[i].range.end + 1] \notin run
                /\ i > 1 => tokens[i - 1].kind # "EndOfLine"
        /\ (tokens # <<>> /\ Last(tokens).ok) =>
              \A j \in 1..Len(bytes) :
                  (j <= tokenizer.index /\ bytes[j] = "\n") =>
                      \E i \in 1..Len(tokens) :
                          /\ tokens[i].kind \in {"EndOfLine", "QuotedLiteral"}
                          /\ tokens[i].range.start < j
                          /\ j <= tokens[i].range.end

\* The source of the test with three newlines among spaces, tabs and a CR:
\* one EndOfLine from the first newline up to cmd2, which is at line 3,
\* column 2
C20_Witness ==
    /\ Len(tokens) >= 4
    /\ tokens[3].kind = "EndOfLine"
    /\ tokens[3].range = [start |-> 12, end |-> 20]
    /\ tokens[3].position = [line_index |-> 0, column_byte_index |-> 12]
    /\ tokens[4].kind = "Literal"
    /\ tokens[4].position = [line_index |-> 3, column_byte_index |-> 2]

RECURSIVE RangesConcatenated(_)
\* source[range] of the tokens from the i-th on, one after the other
RangesConcatenated(i) ==
    IF i > Len(tokens) THEN <<>>
    ELSE SubSeq(tokenizer.source, tokens[i].range.start + 1,
                tokens[i].range.end)
         \o RangesConcatenated(i + 1)

RECURSIVE Without(_, _, _)
\* The bytes of a source from the j-th on, without those at the indexes of
\* deleted
Without(bytes, deleted, j) ==
    IF j > Len(bytes) THEN <<>>
    ELSE (IF j \in deleted THEN <<>> ELSE <<bytes[j]>>)
         \o Without(bytes, deleted, j + 1)

\* C21: for a source that tokenizes without error the ranges of the tokens
\* are in increasing order, do not overlap and lie within the source, and
\* the concatenation of source[range] over all tokens is the source with
\* only spaces, tabs and CRs between tokens deleted.
C21_RangesReconstructSource ==
    (tokens # <<>> /\ Last(tokens).ok /\ Last(tokens).kind = "EndOfSource") =>
        LET bytes == tokenizer.source
            between == {j \in 1..Len(bytes) :
                          \A i \in 1..Len(tokens) :
                              ~(tokens[i].range.start < j
                                /\ j <= tokens[i].range.end)}
        IN  /\ \A i \in 1..Len(tokens) :
                  /\ 0 <= tokens[i].range.start
                  /\ tokens[i].range.start <= tokens[i].range.end
                  /\ tokens[i].range.end <= Len(bytes)
            /\ \A i \in 1..(Len(tokens) - 1) :
                  tokens[i].range.end <= tokens[i + 1].range.start
            /\ \A j \in between : bytes[j] \in {" ", "\t", "\r"}
            /\ RangesConcatenated(1) = Without(bytes, between, 1)

\* The source of the test with two literals, a run of newlines and a third
\* literal is tokenized to its end: spaces, a tab and a CR were between
\* tokens
C21_Witness ==
    /\ Len(tokenizer.source) = 24
    /\ Len(tokens) = 5
    /\ tokens[5].kind = "EndOfSource"
    /\ tokens[2].range.end < tokens[3].range.start

----------------------------------------------------------------------------
\* Properties of the literals

\* The byte that a backslash and the byte b after it stand for, "" when b
\* names none
EscapeOf(b) ==
    CASE b = "\\" -> "\\"
      [] b = "'" -> "'"
      [] b = "\"" -> "\""
      [] b = "n" -> "\n"
      [] b = "r" -> "\r"
      [] b = "t" -> "\t"
      [] b = "0" -> "NUL"
      [] OTHER -> ""

RECURSIVE Unescaped(_)
\* The text of the content of a quoted literal: ok is FALSE when a backslash
\* is followed by a byte that names no escape
Unescaped(content) ==
    IF content = <<>> THEN [ok |-> TRUE, out |-> <<>>]
    ELSE IF content[1] # "\\"
    THEN [Unescaped(Tail(content)) EXCEPT !.out = <<content[1]>> \o @]
    ELSE IF Len(content) < 2 \/ EscapeOf(content[2]) = ""
    THEN [ok |-> FALSE, out |-> <<>>]
    ELSE [Unescaped(SubSeq(content, 3, Len(content)))
            EXCEPT !.out = <<EscapeOf(content[2])>> \o @]

\* The content of the quoted literal that next returned first
LiteralContent ==
    SubSeq(tokenizer.source, tokens[1].range.start + 2,
           tokens[1].range.end - 1)

\* C22: compiling a quoted literal decodes its escapes into the text arena:
\* a backslash followed by \, ', ", n, r, t, 0 yields one byte (\, ', ",
\* 0x0A, 0x0D, 0x09, 0x00), all other bytes are copied unchanged, and a
\* backslash followed by any other byte fails with InvalidLiteralEscaping.
C22_EscapesDecoded ==
    (result # "None" /\ Len(tokens) = 1 /\ tokens[1].kind = "QuotedLiteral") =>
        IF Unescaped(LiteralContent).ok
        THEN result = "Ok" /\ texts = Unescaped(LiteralContent).out
        ELSE result = "InvalidLiteralEscaping"

----------------------------------------------------------------------------
\* Properties of Key::parse

\* C23: for every key, parsing its canonical textual form yields the key.
C23_ParseOfDisplay ==
    \A k \in Keys :
        (parsed # NotParsed /\ chars = Display(k)) => parsed = KeyOk(k)

\* The form \< was parsed to the character <, and <a-z> to Alt z
C23_Witness ==
    \/ chars = <<"\\", "<">> /\ parsed = KeyOk(Key("Char", "<"))
    \/ chars = <<"<", "a", "-", "z", ">">> /\ parsed = KeyOk(Key("Alt", "z"))

\* C24: <fN> is accepted exactly when N is one digit from 1 to 9 or one of
\* 10, 11, 12, and then gives F(N); with every other N it is a parse error.
C24_FunctionKeys ==
    /\ \A n \in 0..MaxFunctionKey :
          (parsed # NotParsed /\ chars = <<"<", "f">> \o Digits(n) \o <<">">>) =>
              IF n \in 1..12 THEN parsed = KeyOk(Key("F", ToString(n)))
              ELSE ~parsed.ok
    /\ (/\ parsed # NotParsed
        /\ chars \in {<<"<", "f", ">">>, <<"<", "f", "a", ">">>,
                      <<"<", "f", "0", "1", ">">>,
                      <<"<", "f", "1", "0", "0", ">">>}) => ~parsed.ok

----------------------------------------------------------------------------
\* Properties of CursorCollection

\* C25: after add_cursor, change_all or the drop of a CursorCollectionMut
\* the cursors are sorted by the start of their range, and the range of no
\* cursor contains the start of the range of another cursor: cursors that
\* overlap, directly or through a chain of overlaps, were merged into one.
C25_SortedAndMerged ==
    /\ \A i \in 1..(Len(cursors) - 1) :
          CursorRange(cursors[i]).from <= CursorRange(cursors[i + 1]).from
    /\ \A i, j \in 1..Len(cursors) :
          i # j =>
              ~(/\ CursorRange(cursors[i]).from <= CursorRange(cursors[j]).from
                /\ CursorRange(cursors[j]).from <= CursorRange(cursors[i]).to)

----------------------------------------------------------------------------
\* Properties of the frames

\* The frames that are on frames or on prepared_frames
AllFrames ==
    {frames[i] : i \in 1..Len(frames)}
    \cup {prepared_frames[i] : i \in 1..Len(prepared_frames)}

\* C26: at every step of execution every frame on frames and on
\* prepared_frames has stack_len <= value_stack.len() and
\* texts_len <= texts.len().
C26_FramesWithinStackAndTexts ==
    \A frame \in AllFrames :
        /\ frame.stack_len <= Len(value_stack)
        /\ frame.texts_len <= Len(texts)

\* A macro runs in its frame while a frame is prepared for a call in its
\* body, above values and texts that were pushed before
C26_Witness ==
    /\ phase = "exec"
    /\ frames # <<>>
    /\ prepared_frames # <<>>
    /\ Last(prepared_frames).stack_len > Last(frames).stack_len
    /\ Last(frames).texts_len > 0

----------------------------------------------------------------------------
\* Properties of DuplicateAt

\* The stack length at which the innermost frame on frames was prepared, 0
\* at the top level
FrameBase == IF frames = <<>> THEN 0 ELSE Last(frames).stack_len

\* C27: whenever DuplicateAt(i) executes, the slot it reads exists on the
\* value stack, below the stack top, and is not below the base of the
\* current frame.
C27_DuplicateAtWithinWindow ==
    Executing("DuplicateAt") =>
        /\ DuplicateAtSlot(CurrentOp.index) <= Len(value_stack)
        /\ DuplicateAtSlot(CurrentOp.index) > FrameBase

\* C28: whenever DuplicateAt(i) executes inside a macro, the base it adds i
\* to is the base of the innermost frame on frames, also after a macro
\* called from the body has returned.
C28_BaseOfInnermostFrame ==
    (Executing("DuplicateAt") /\ frames # <<>>) =>
        DuplicateAtSlot(CurrentOp.index) = FrameBase + CurrentOp.index + 1

----------------------------------------------------------------------------
\* Properties of the macro call

\* C29: CallMacroCommand(i) at op index p moves the prepared frame onto
\* frames with p stored in it and continues at the first op of macro i;
\* every frame on frames stores the index of a CallMacroCommand, and the
\* Return that pops a frame continues at the stored index plus one.
C29_CallAndReturn ==
    /\ [][(Executing("CallMacroCommand") /\ phase' = "exec") =>
            /\ op_index' = macro_commands[CurrentOp.index + 1].op_start_index
            /\ prepared_frames' = Front(prepared_frames)
            /\ frames' = Append(frames, [Last(prepared_frames)
                                            EXCEPT !.op_index = op_index])]_vars
    /\ [](phase = "exec" =>
            \A k \in 1..Len(frames) :
                /\ frames[k].op_index < Len(ops)
                /\ ops[frames[k].op_index + 1].op = "CallMacroCommand")
    /\ [][(Executing("Return") /\ frames # <<>> /\ phase' = "exec") =>
            /\ op_index' = Last(frames).op_index + 1
            /\ frames' = Front(frames)]_vars

\* A macro called from the body of another macro has returned: execution
\* is at the op after a CallMacroCommand, inside the frame of the caller
C29_Witness ==
    /\ phase = "exec"
    /\ frames # <<>>
    /\ op_index >= 1
    /\ ops[op_index].op = "CallMacroCommand"
    /\ op_index < Len(ops)

----------------------------------------------------------------------------
\* Properties of the builtin call

\* C30: after a builtin call returned Ok(None) the value stack holds
\* frame.stack_len + 1 values, frame being the frame prepared for the call,
\* and the text of the top value is the bytes the builtin wrote with
\* write_output during the call, the empty text if it wrote nothing.
C30_BuiltinReturnValue ==
    [][(Executing("CallBuiltinCommand") /\ phase' = "exec") =>
        LET frame == Last(prepared_frames)
            r == BuiltinFunc(CurrentOp.index, frame.stack_len, CurrentOp.bang)
        IN  /\ r.res = "OkNone"
            /\ Len(value_stack') = frame.stack_len + 1
            /\ ValueOk(Last(value_stack'), texts')
            /\ ValueText(Last(value_stack'), texts') = r.out]_vars

\* append returned after it wrote two bytes, one of them the output of the
\* call in its first argument
C30_Witness ==
    /\ phase = "exec"
    /\ op_index >= 1
    /\ ops[op_index].op = "CallBuiltinCommand"
    /\ value_stack # <<>>
    /\ ValueOk(Last(value_stack), texts)
    /\ ValueText(Last(value_stack), texts) = <<"x", "y">>

----------------------------------------------------------------------------
\* Properties of Pop

\* The arena length the code of the current frame started to write at
TextsStart ==
    IF frames # <<>> THEN Last(frames).texts_len ELSE initial_texts_len

----------------------------------------------------------------------------
\* Properties of an eval that fails

\* C32: an eval that fails leaves ops, texts and op_locations at the
\* lengths they had before it began and frames and prepared_frames empty:
\* a compiler error leaves the lengths as they were, and when a builtin
\* returns Err in the first eval, which began with everything empty, all
\* five are empty afterwards.
C32_FailedEvalRestores ==
    /\ [][(phase = "idle" /\ evals' = evals + 1 /\ phase' = "idle") =>
            /\ Lengths([ops |-> ops', texts |-> texts', locs |-> op_locations'])
               = Lengths([ops |-> ops, texts |-> texts, locs |-> op_locations])
            /\ frames' = <<>>
            /\ prepared_frames' = <<>>]_vars
    /\ []((phase = "idle" /\ result = "Err" /\ evals = 1) =>
            /\ ops = <<>> /\ texts = <<>> /\ op_locations = <<>>
            /\ frames = <<>>
            /\ prepared_frames = <<>>)

----------------------------------------------------------------------------
\* Properties of the command names

\* The names the macro definitions of a source give
DefinedNames(toks) ==
    {toks[k + 1].text : k \in {j \in 1..(Len(toks) - 1) : toks[j] = Lit(n_macro)}}

\* The name hashes of the builtins, aliases included
BuiltinHashes ==
    UNION {{BUILTIN_COMMANDS[b].name_hash, BUILTIN_COMMANDS[b].alias_hash} :
            b \in 1..Len(BUILTIN_COMMANDS)}

\* The name hashes of the registered macros
MacroHashes == {macro_commands[i].name_hash : i \in 1..Len(macro_commands)}

\* C33: an eval whose source defines a macro under the name hash of a
\* registered macro or of a builtin, alias included, fails with
\* CommandAlreadyExists and registers no macro of that name hash; at all
\* times the registered macros have pairwise distinct name hashes, none of
\* them the name or alias hash of a builtin.
C33_UniqueNameHashes ==
    /\ [][(phase = "idle" /\ evals' = evals + 1) =>
            \A name \in DefinedNames(Tokens(source')) :
                hash_bytes(name) \in MacroHashes \cup BuiltinHashes =>
                    /\ result' = "CommandAlreadyExists"
                    /\ Cardinality({i \in 1..Len(macro_commands') :
                            macro_commands'[i].name_hash = hash_bytes(name)})
                       = Cardinality({i \in 1..Len(macro_commands) :
                            macro_commands[i].name_hash = hash_bytes(name)})]_vars
    /\ [](/\ Cardinality(MacroHashes) = Len(macro_commands)
           /\ MacroHashes \cap BuiltinHashes = {})

\* A definition was rejected while two macros are registered
C33_Witness ==
    /\ phase = "idle"
    /\ result = "CommandAlreadyExists"
    /\ Len(macro_commands) >= 2

----------------------------------------------------------------------------
\* Properties of the stack values

\* C34: at every step of execution every value on the value stack has
\* start <= end <= texts.len().
C34_ValuesWithinTexts ==
    phase \in {"exec", "executed"} =>
        \A i \in 1..Len(value_stack) :
            /\ value_stack[i].start <= value_stack[i].end
            /\ value_stack[i].end <= Len(texts)

----------------------------------------------------------------------------
\* Termination of execute

----------------------------------------------------------------------------
\* Properties of the bodies of the registered macros

\* The 1-based indices in ops at which the body of the i-th macro may end:
\* a Return after op_start_index, not beyond the start of the next macro
BodyEnds(i) ==
    {e \in (macro_commands[i].op_start_index + 1)..Len(ops) :
        /\ ops[e] = OpReturn
        /\ i < Len(macro_commands) => e <= macro_commands[i + 1].op_start_index}

\* The body of the i-th macro, up to its first Return
MacroBody(i) ==
    SubSeq(ops, macro_commands[i].op_start_index + 1,
           CHOOSE e \in BodyEnds(i) : \A d \in BodyEnds(i) : e <= d)

----------------------------------------------------------------------------
\* Properties of a Submitted input that is too long

\* C37: when a Submitted input of more than 256 bytes is rejected, the mode
\* is still Command, the read-line input is unchanged, nothing was
\* evaluated, and the history is what add_to_history makes of the input:
\* the input is its newest entry unless it starts with whitespace.
C37_TooLongIsRecorded ==
    [][(key' = "Enter" /\ steps' = steps + 1
        /\ Len(read_line.input) > COMMAND_BUF_LEN) =>
        /\ kind = "Command"
        /\ kind' = "Command"
        /\ read_line' = read_line
        /\ eval_outcome' = eval_outcome
        /\ history' =
            IF read_line.input[1] \in AsciiWhitespace
                \/ (history # <<>> /\ Last(history) = read_line.input)
            THEN history
            ELSE IF Len(history) = history_capacity
            THEN Append(Tail(history), read_line.input)
            ELSE Append(history, read_line.input)
        /\ read_line.input[1] \notin AsciiWhitespace =>
            Last(history') = read_line.input]_vars

\* An input of 257 bytes was rejected and is the newest entry of the
\* history
C37_Witness ==
    /\ mode_pc = "too_long"
    /\ kind = "Command"
    /\ Len(read_line.input) = COMMAND_BUF_LEN + 1
    /\ history # <<>>
    /\ Last(history) = read_line.input

C39_StoredEntries ==
    /\ \A i \in 1..Len(history) :
          /\ history[i] # <<>>
          /\ history[i][1] \notin AsciiWhitespace
    /\ \A i \in 1..(Len(history) - 1) : history[i] # history[i + 1]

\* The newest entry was given again after the oldest entries were removed
\* to make room
C39_Witness ==
    /\ mode_pc = "added"
    /\ Len(history) = history_capacity
    /\ added_entry = Last(history)
    /\ Head(history) # <<"a">>

\* C40: for every literal the compiler emits, the start of the
\* PushStringLiteral op is the byte offset of the literal in the text arena
\* and texts[start..start+len] is the decoded literal; an offset that does
\* not fit in 16 bits is never emitted reduced modulo 2^16.
C40_StartIsTheOffset ==
    \A k \in 1..Len(ops) :
        /\ ops[k].start = (k - 1) * U8_MAX
        /\ SubSeq(texts, ops[k].start + 1, ops[k].start + ops[k].len)
              = ArenaLiteral(k - 1).text

====
